---------------------------- MODULE Spec2Model ----------------------------
(***************************************************************************)
(* Block Device Area (BDA) of stratisd:                                    *)
(*   src/src/engine/strat_engine/backstore/metadata.rs                     *)
(*                                                                         *)
(* The byte stream F (Read + Seek + SyncAll) is modelled byte for byte,    *)
(* with the offsets of the Rust source (buf[4..20] is Slice(buf, 4, 20)).  *)
(* Bytes are kept by the offsets that hold a non-zero byte: every other    *)
(* offset reads as 0, so two buffers, or two streams, are equal byte for   *)
(* byte exactly when their values in the model are equal.                  *)
(*                                                                         *)
(* Integers of TLC are 32-bit: every u64 the model writes is below 2^31,   *)
(* and a stored CRC is compared through its little-endian encoding.        *)
(***************************************************************************)
EXTENDS Integers, Sequences, FiniteSets, Bags, TLC

VARIABLES
    f,          \* the stream: [bytes, pos, log]
    bda,        \* Option<BDA>: the live BDA instance, None before initialize / load
    ret,        \* the last call: its name, its arguments and what it returned
    hist,       \* what the calls since the last BDA::initialize were
    reference,  \* Option<bytes>: reference_buf of the recovery tests; the stream
                \* as it was before a BDA::initialize that a crash interrupted,
                \* or with the sigblock that replaced one of its copies
    sh,         \* codec: the StaticHeader, or the MDAHeader, under test
    sigbuf,     \* codec: Option<[u8; SECTOR_SIZE]>, sh.sigblock_to_buf(), or
                \* Option<[u8; MDA_REGION_HDR_SIZE]>, the region header buffer
    decoded     \* codec: Option<StratisResult<Option<StaticHeader>>>, or
                \* Option<StratisResult<Option<MDAHeader>>>

vars == <<f, bda, ret, hist, reference, sh, sigbuf, decoded>>

-----------------------------------------------------------------------------
(* Program constants *)

SECTOR_SIZE == 512

BDA_STATIC_HDR_SIZE == 16 * SECTOR_SIZE

MDA_RESERVED_SECTORS == (3 * 1048576) \div SECTOR_SIZE

STRAT_SIGBLOCK_VERSION == 1

MDA_REGION_HDR_SIZE == 32

NUM_MDA_REGIONS == 4

PER_MDA_REGION_COPIES == 2

NUM_PRIMARY_MDA_REGIONS == NUM_MDA_REGIONS \div PER_MDA_REGION_COPIES

MIN_MDA_SECTORS == 2032

STRAT_REGION_HDR_VERSION == 1

STRAT_METADATA_VERSION == 1

-----------------------------------------------------------------------------
(* Option and StratisResult *)

None == <<>>

Some(x) == <<x>>

is_some(o) == o # <<>>

unwrap(o) == o[1]

Ok(v) == [ok |-> TRUE, val |-> v, err |-> "Ok"]

Err(kind) == [ok |-> FALSE, val |-> <<>>, err |-> kind]

-----------------------------------------------------------------------------
(* Buffers: a [u8] is [len, nz], len its length and nz the function from   *)
(* the offsets 0..len-1 that hold a non-zero byte to that byte.            *)

BLen(b) == b.len

\* b[i]
At(b, i) == IF i \in DOMAIN b.nz THEN b.nz[i] ELSE 0

\* The buffer of the bytes of a sequence
B(s) ==
    [len |-> Len(s),
     nz |-> [i \in {j - 1 : j \in {k \in 1..Len(s) : s[k] # 0}} |-> s[i + 1]]]

\* [0u8; n]
Zeros(n) == [len |-> n, nz |-> <<>>]

\* The non-zero bytes of nz, those of src laid over them at off
Overlay(nz, off, src) ==
    LET keep == {o \in DOMAIN nz : o < off \/ o >= off + src.len}
        new == {off + i : i \in DOMAIN src.nz}
    IN  [o \in keep \cup new |-> IF o \in new THEN src.nz[o - off] ELSE nz[o]]

\* The n bytes of nz from off on, as a buffer
Window(nz, off, n) ==
    [len |-> n,
     nz |-> [i \in {o - off : o \in {k \in DOMAIN nz : k >= off /\ k < off + n}}
                |-> nz[i + off]]]

\* b[lo..hi]
Slice(b, lo, hi) == Window(b.nz, lo, hi - lo)

\* b[off..off + src.len()].clone_from_slice(src)
Put(b, off, src) == [len |-> b.len, nz |-> Overlay(b.nz, off, src)]

RECURSIVE LEDigits(_, _)
LEDigits(v, n) == IF n = 0 THEN <<>> ELSE <<v % 256>> \o LEDigits(v \div 256, n - 1)

\* LittleEndian::write_u32 / write_u64: the n bytes of v, least significant first
write_le(v, n) == B(LEDigits(v, n))

RECURSIVE read_le_from(_, _)
read_le_from(b, k) ==
    IF k >= BLen(b) THEN 0 ELSE At(b, k) + 256 * read_le_from(b, k + 1)

\* LittleEndian::read_u32 / read_u64
read_le(b) == read_le_from(b, 0)

\* crc32::checksum_castagnoli (crate crc).  The model keeps of CRC-32C what
\* the program relies on: it is a function of the bytes and of their number,
\* it is 0 for no bytes and not 0 for a run of zero bytes, and it changes
\* whenever a single byte changes.  Here: the number of bytes plus the sum
\* of (i + 1) * data[i], which stays below 2^32.
checksum_castagnoli(data) ==
    data.len + BagCardinality([i \in DOMAIN data.nz |-> (i + 1) * data.nz[i]])

-----------------------------------------------------------------------------
(* UUIDs: 16 bytes; Uuid::simple().to_string() and Uuid::parse_str *)

HexDigit(n) == IF n < 10 THEN 48 + n ELSE 87 + n

HexVal(c) ==
    IF c >= 48 /\ c <= 57 THEN c - 48
    ELSE IF c >= 97 /\ c <= 102 THEN c - 87
    ELSE IF c >= 65 /\ c <= 70 THEN c - 55
    ELSE -1

\* uuid.simple().to_string().as_bytes(): 32 lower-case hex digits
uuid_to_simple(u) ==
    [len |-> 32,
     nz |-> [i \in 0..31 |-> IF i % 2 = 0 THEN HexDigit(u[i \div 2] \div 16)
                                           ELSE HexDigit(u[i \div 2] % 16)]]

\* Uuid::parse_str(from_utf8(buf)?)? on 32 bytes
uuid_parse_str(s) ==
    IF \E i \in 0..31 : HexVal(At(s, i)) = -1
    THEN Err("Uuid")
    ELSE Ok([k \in 0..15 |-> 16 * HexVal(At(s, 2 * k)) + HexVal(At(s, 2 * k + 1))])

-----------------------------------------------------------------------------
(* StaticHeader *)

STRAT_MAGIC == B(<<33, 83, 116, 114, 97, 48, 116, 105, 115, 134, 255, 2, 94, 65, 114, 104>>)

\* StaticHeader::new
StaticHeader_new(pool_uuid, dev_uuid, mda_size, blkdev_size, initialization_time) ==
    [blkdev_size |-> blkdev_size,
     pool_uuid |-> pool_uuid,
     dev_uuid |-> dev_uuid,
     mda_size |-> mda_size,
     reserved_size |-> MDA_RESERVED_SECTORS,
     flags |-> 0,
     initialization_time |-> initialization_time]

\* mda::validate_mda_size
validate_mda_size(size) ==
    IF size % NUM_MDA_REGIONS # 0 THEN Err("Invalid")
    ELSE IF size < MIN_MDA_SECTORS THEN Err("Invalid")
    ELSE Ok(<<>>)

\* sigblock_fields with mda_size and reserved_size at each other's offset
sigblock_fields_sizes_swapped(h) ==
    LET b0 == Zeros(SECTOR_SIZE)
        b1 == Put(b0, 4, STRAT_MAGIC)
        b2 == Put(b1, 20, write_le(h.blkdev_size, 8))
        b3 == Put(b2, 28, B(<<STRAT_SIGBLOCK_VERSION>>))
        b4 == Put(b3, 32, uuid_to_simple(h.pool_uuid))
        b5 == Put(b4, 64, uuid_to_simple(h.dev_uuid))
        b6 == Put(b5, 104, write_le(h.mda_size, 8))
        b7 == Put(b6, 96, write_le(h.reserved_size, 8))
    IN  Put(b7, 120, write_le(h.initialization_time, 8))

\* StaticHeader::sigblock_to_buf, up to the CRC
sigblock_fields(h) ==
    LET b0 == Zeros(SECTOR_SIZE)
        b1 == Put(b0, 4, STRAT_MAGIC)
        b2 == Put(b1, 20, write_le(h.blkdev_size, 8))
        b3 == Put(b2, 28, B(<<STRAT_SIGBLOCK_VERSION>>))
        b4 == Put(b3, 32, uuid_to_simple(h.pool_uuid))
        b5 == Put(b4, 64, uuid_to_simple(h.dev_uuid))
        b6 == Put(b5, 96, write_le(h.mda_size, 8))
        b7 == Put(b6, 104, write_le(h.reserved_size, 8))
    IN  Put(b7, 120, write_le(h.initialization_time, 8))

\* StaticHeader::sigblock_to_buf
sigblock_to_buf(h) ==
    LET buf == sigblock_fields(h)
        hdr_crc == checksum_castagnoli(Slice(buf, 4, SECTOR_SIZE))
    IN  Put(buf, 0, write_le(hdr_crc, 4))

\* StaticHeader::sigblock_from_buf, after the magic and the CRC: the version
\* and the fields
sigblock_fields_from_buf(buf) ==
    IF At(buf, 28) # STRAT_SIGBLOCK_VERSION THEN Err("Invalid")
    ELSE LET pool_uuid == uuid_parse_str(Slice(buf, 32, 64))
             dev_uuid == uuid_parse_str(Slice(buf, 64, 96))
             mda_size == read_le(Slice(buf, 96, 104))
         IN  IF ~pool_uuid.ok THEN pool_uuid
             ELSE IF ~dev_uuid.ok THEN dev_uuid
             ELSE IF ~validate_mda_size(mda_size).ok THEN validate_mda_size(mda_size)
             ELSE Ok(Some([pool_uuid |-> pool_uuid.val,
                           dev_uuid |-> dev_uuid.val,
                           blkdev_size |-> read_le(Slice(buf, 20, 28)),
                           mda_size |-> mda_size,
                           reserved_size |-> read_le(Slice(buf, 104, 112)),
                           flags |-> 0,
                           initialization_time |-> read_le(Slice(buf, 120, 128))]))

\* sigblock_from_buf with the CRC checked before the magic
sigblock_from_buf_crc_first(buf) ==
    IF write_le(checksum_castagnoli(Slice(buf, 4, SECTOR_SIZE)), 4) # Slice(buf, 0, 4)
    THEN Err("Invalid")
    ELSE IF Slice(buf, 4, 20) # STRAT_MAGIC THEN Ok(None)
    ELSE sigblock_fields_from_buf(buf)

\* StaticHeader::sigblock_from_buf.  crc != read_u32(&buf[..4]) is decided on
\* the encodings: write_u32 is one to one.
sigblock_from_buf(buf) ==
    IF Slice(buf, 4, 20) # STRAT_MAGIC THEN Ok(None)
    ELSE IF write_le(checksum_castagnoli(Slice(buf, 4, SECTOR_SIZE)), 4) # Slice(buf, 0, 4)
    THEN Err("Invalid")
    ELSE sigblock_fields_from_buf(buf)

-----------------------------------------------------------------------------
(* The stream F: Read + Seek + SyncAll.                                    *)
(*   bytes  the non-zero bytes, by offset; the device is long enough for   *)
(*          every offset the BDA uses, so no read meets the end of it      *)
(*   pos    the position of the cursor                                     *)
(*   log    the stream calls of the current BDA call: <<call, offset,      *)
(*          length, succeeded>>                                            *)
(*   fail   which stream calls of the current BDA call fail with an I/O    *)
(*          error (their places in log); a failed write_all wrote nothing  *)
(*   err    an I/O error is being propagated by `?`: the calls that follow *)
(*          in the source are not made                                     *)
(*   partial  how many bytes a read_exact that fails has put in its buffer *)
(*          before the error: Read::read_exact leaves the contents of the  *)
(*          buffer unspecified when it returns an error                    *)

io_fails(s) == (Len(s.log) + 1) \in s.fail

io_call(s, call, off, n, after) ==
    IF s.err THEN s
    ELSE IF io_fails(s)
    THEN [s EXCEPT !.err = TRUE, !.log = Append(@, <<call, off, n, FALSE>>)]
    ELSE [after EXCEPT !.log = Append(@, <<call, off, n, TRUE>>)]

\* f.seek(SeekFrom::Start(off))?
seek(s, off) == io_call(s, "seek", off, 0, [s EXCEPT !.pos = off])

\* f.write_all(buf)?
write_all(s, buf) ==
    io_call(s, "write_all", s.pos, BLen(buf),
            [s EXCEPT !.bytes = Overlay(@, s.pos, buf), !.pos = @ + BLen(buf)])

\* f.sync_all()?
sync_all(s) == io_call(s, "sync_all", s.pos, 0, s)

\* f.read_exact(&mut buf)?: the bytes read are read_buf(s, n), s the stream before
read_exact(s, n) == io_call(s, "read_exact", s.pos, n, [s EXCEPT !.pos = @ + n])

read_buf(s, n) == Window(s.bytes, s.pos, n)

\* A Result has been made of the error: the caller goes on
caught(s) == [s EXCEPT !.err = FALSE]

\* The stream as a BDA call finds it and as it leaves it
begin_call(s, fail) == [s EXCEPT !.log = <<>>, !.fail = fail, !.err = FALSE]

end_call(s) == [s EXCEPT !.fail = {}, !.err = FALSE, !.partial = 0]

-----------------------------------------------------------------------------
(* mod mda: MDAHeader *)

\* DateTime<Utc>: Utc.timestamp(secs, nsecs)
Timestamp(secs, nsecs) == [secs |-> secs, nsecs |-> nsecs]

\* Ord for DateTime<Utc>
time_lt(a, b) == a.secs < b.secs \/ (a.secs = b.secs /\ a.nsecs < b.nsecs)

\* opt_time_ge with > for >=: a timestamp equal to the newest one passes
opt_time_gt(a, b) ==
    IF ~is_some(a) THEN FALSE
    ELSE IF ~is_some(b) THEN TRUE
    ELSE time_lt(unwrap(b), unwrap(a))

\* Ord for Option<&DateTime<Utc>>: None is below every Some
opt_time_ge(a, b) ==
    IF ~is_some(b) THEN TRUE
    ELSE IF ~is_some(a) THEN FALSE
    ELSE ~time_lt(unwrap(a), unwrap(b))

\* MDAHeader::default
MDAHeader_default == [last_updated |-> Timestamp(0, 0), used |-> 0, data_crc |-> 0]

\* check_mda_region_size that leaves the header out of the sum
check_mda_region_size_no_header(used, available) ==
    IF used > available THEN Err("Invalid") ELSE Ok(<<>>)

\* mda::check_mda_region_size
check_mda_region_size(used, available) ==
    IF MDA_REGION_HDR_SIZE + used > available THEN Err("Invalid") ELSE Ok(<<>>)

\* to_buf with the CRC taken over the whole buffer, the CRC field included
to_buf_crc_whole(h) ==
    LET b0 == Zeros(MDA_REGION_HDR_SIZE)
        b1 == Put(b0, 4, write_le(h.data_crc, 4))
        b2 == Put(b1, 8, write_le(h.used, 8))
        b3 == Put(b2, 16, write_le(h.last_updated.secs, 8))
        b4 == Put(b3, 24, write_le(h.last_updated.nsecs, 4))
        b5 == Put(b4, 28, B(<<STRAT_REGION_HDR_VERSION>>))
        b6 == Put(b5, 29, B(<<STRAT_METADATA_VERSION>>))
    IN  Put(b6, 0, write_le(checksum_castagnoli(b6), 4))

\* MDAHeader::to_buf
to_buf(h) ==
    LET b0 == Zeros(MDA_REGION_HDR_SIZE)
        b1 == Put(b0, 4, write_le(h.data_crc, 4))
        b2 == Put(b1, 8, write_le(h.used, 8))
        b3 == Put(b2, 16, write_le(h.last_updated.secs, 8))
        b4 == Put(b3, 24, write_le(h.last_updated.nsecs, 4))
        b5 == Put(b4, 28, B(<<STRAT_REGION_HDR_VERSION>>))
        b6 == Put(b5, 29, B(<<STRAT_METADATA_VERSION>>))
        buf_crc == checksum_castagnoli(Slice(b6, 4, MDA_REGION_HDR_SIZE))
    IN  Put(b6, 0, write_le(buf_crc, 4))

\* from_buf that checks the size before it looks at the seconds
from_buf_size_first(buf, region_size) ==
    IF Slice(buf, 0, 4) # write_le(checksum_castagnoli(Slice(buf, 4, MDA_REGION_HDR_SIZE)), 4)
    THEN Err("Invalid")
    ELSE IF At(buf, 28) # STRAT_REGION_HDR_VERSION THEN Err("Invalid")
    ELSE IF At(buf, 29) # STRAT_METADATA_VERSION THEN Err("Invalid")
    ELSE LET secs == read_le(Slice(buf, 16, 24))
             used == read_le(Slice(buf, 8, 16))
         IN  IF ~check_mda_region_size(used, region_size).ok
             THEN check_mda_region_size(used, region_size)
             ELSE IF secs = 0 THEN Ok(None)
             ELSE Ok(Some([used |-> used,
                           last_updated |-> Timestamp(secs, read_le(Slice(buf, 24, 28))),
                           data_crc |-> read_le(Slice(buf, 4, 8))]))

\* MDAHeader::from_buf.  read_u32(&buf[..4]) != crc is decided on the encodings.
from_buf(buf, region_size) ==
    IF Slice(buf, 0, 4) # write_le(checksum_castagnoli(Slice(buf, 4, MDA_REGION_HDR_SIZE)), 4)
    THEN Err("Invalid")
    ELSE IF At(buf, 28) # STRAT_REGION_HDR_VERSION THEN Err("Invalid")
    ELSE IF At(buf, 29) # STRAT_METADATA_VERSION THEN Err("Invalid")
    ELSE LET secs == read_le(Slice(buf, 16, 24))
             used == read_le(Slice(buf, 8, 16))
         IN  IF secs = 0 THEN Ok(None)
             ELSE IF ~check_mda_region_size(used, region_size).ok
             THEN check_mda_region_size(used, region_size)
             ELSE Ok(Some([used |-> used,
                           last_updated |-> Timestamp(secs, read_le(Slice(buf, 24, 28))),
                           data_crc |-> read_le(Slice(buf, 4, 8))]))

\* load_region without the comparison of the data CRC
load_region_unchecked(mda, s) ==
    LET check(s1, data_buf) ==
            [s |-> s1, res |-> IF s1.err THEN Err("Io") ELSE Ok(data_buf)]
    IN  check(read_exact(s, mda.used), read_buf(s, mda.used))

\* MDAHeader::load_region, on a stream already at the payload
load_region(mda, s) ==
    LET check(s1, data_buf) ==
            [s |-> s1,
             res |-> IF s1.err THEN Err("Io")
                     ELSE IF mda.data_crc # checksum_castagnoli(data_buf) THEN Err("Invalid")
                     ELSE Ok(data_buf)]
    IN  check(read_exact(s, mda.used), read_buf(s, mda.used))

-----------------------------------------------------------------------------
(* mod mda: MDARegions = [region_size, mdas], mdas a function from 0..1 *)

\* Sectors::bytes
sectors_bytes(n) == n * SECTOR_SIZE

\* MDARegions::mda_offset
mda_offset(header_size, index, per_region_size) == header_size + per_region_size * index

\* older that names slot 0 whatever the slots hold
older_slot_zero(regions) == 0

\* older that names the slot with the later timestamp, or a populated one
older_is_later(regions) ==
    IF ~is_some(regions.mdas[0]) THEN 1
    ELSE IF ~is_some(regions.mdas[1]) THEN 0
    ELSE IF time_lt(unwrap(regions.mdas[0]).last_updated, unwrap(regions.mdas[1]).last_updated)
    THEN 1
    ELSE 0

\* MDARegions::older
older(regions) ==
    IF ~is_some(regions.mdas[0]) THEN 0
    ELSE IF ~is_some(regions.mdas[1]) THEN 1
    ELSE IF time_lt(unwrap(regions.mdas[0]).last_updated, unwrap(regions.mdas[1]).last_updated)
    THEN 0
    ELSE 1

\* newer without the match on older(): the slot save_state writes next
newer_same_as_older(regions) == older(regions)

\* newer that names slot 1 whatever the slots hold
newer_slot_one(regions) == 1

\* MDARegions::newer
newer(regions) == IF older(regions) = 0 THEN 1 ELSE 0

\* last_update_time that always looks at slot 1
last_update_time_slot_one(regions) ==
    LET time_of(mda) == IF is_some(mda) THEN Some(unwrap(mda).last_updated) ELSE None
    IN  time_of(regions.mdas[1])

\* MDARegions::last_update_time
last_update_time(regions) ==
    LET time_of(mda) == IF is_some(mda) THEN Some(unwrap(mda).last_updated) ELSE None
    IN  time_of(regions.mdas[newer(regions)])

\* MDARegions::max_data_size
max_data_size(regions) == regions.region_size

RECURSIVE initialize_regions_from(_, _, _, _, _)
initialize_regions_from(s, region, header_size, per_region_size, hdr_buf) ==
    IF region >= NUM_MDA_REGIONS THEN s
    ELSE initialize_regions_from(
             write_all(seek(s, mda_offset(header_size, region, per_region_size)), hdr_buf),
             region + 1, header_size, per_region_size, hdr_buf)

\* MDARegions::initialize
MDARegions_initialize(header_size, size, s) ==
    LET hdr_buf == to_buf(MDAHeader_default)
        region_size == size \div NUM_MDA_REGIONS
        per_region_size == sectors_bytes(region_size)
        result(s1) ==
            [s |-> s1,
             res |-> IF s1.err THEN Err("Io")
                     ELSE Ok([region_size |-> region_size, mdas |-> [i \in 0..1 |-> None]])]
    IN  result(sync_all(initialize_regions_from(s, 0, header_size, per_region_size,
                                                hdr_buf)))

\* MDARegions::load, closure load_a_region
load_a_region(s, index, header_size, per_region_size) ==
    LET result(s1, s2) ==
            [s |-> caught(s2),
             res |-> IF s2.err THEN Err("Io")
                     ELSE from_buf(read_buf(s1, MDA_REGION_HDR_SIZE), per_region_size)]
        read(s1) == result(s1, read_exact(s1, MDA_REGION_HDR_SIZE))
    IN  read(seek(s, mda_offset(header_size, index, per_region_size)))

\* get_mda without the or_else
get_mda_no_fallback(s, index, header_size, per_region_size) ==
    load_a_region(s, index, header_size, per_region_size)

\* get_mda that also goes to the sibling when the first header is empty
get_mda_skip_empty(s, index, header_size, per_region_size) ==
    LET or_else(first) ==
            IF first.res.ok /\ is_some(first.res.val) THEN first
            ELSE load_a_region(first.s, index + 2, header_size, per_region_size)
    IN  or_else(load_a_region(s, index, header_size, per_region_size))

\* MDARegions::load, closure get_mda
get_mda(s, index, header_size, per_region_size) ==
    LET or_else(first) ==
            IF first.res.ok THEN first
            ELSE load_a_region(first.s, index + 2, header_size, per_region_size)
    IN  or_else(load_a_region(s, index, header_size, per_region_size))

\* MDARegions::load that takes a slot it cannot read for an empty one
MDARegions_load_lenient(header_size, size, s) ==
    LET region_size == size \div NUM_MDA_REGIONS
        per_region_size == sectors_bytes(region_size)
        slot(mda) == IF mda.res.ok THEN mda.res.val ELSE None
        result(mda0, mda1) ==
            [s |-> caught(mda1.s),
             res |-> Ok([region_size |-> region_size,
                         mdas |-> [i \in 0..1 |-> IF i = 0 THEN slot(mda0) ELSE slot(mda1)]])]
        second(mda0) == result(mda0, get_mda(mda0.s, 1, header_size, per_region_size))
    IN  second(get_mda(s, 0, header_size, per_region_size))

\* MDARegions::load
MDARegions_load(header_size, size, s) ==
    LET region_size == size \div NUM_MDA_REGIONS
        per_region_size == sectors_bytes(region_size)
        result(mda0, mda1) ==
            IF ~mda0.res.ok THEN mda0
            ELSE IF ~mda1.res.ok THEN mda1
            ELSE [s |-> mda1.s,
                  res |-> Ok([region_size |-> region_size,
                              mdas |-> [i \in 0..1 |-> IF i = 0 THEN mda0.res.val
                                                       ELSE mda1.res.val]])]
        second(mda0) == result(mda0, get_mda(mda0.s, 1, header_size, per_region_size))
    IN  second(get_mda(s, 0, header_size, per_region_size))

\* save_region one region further
save_region_next_index(s, index, header_size, region_size, hdr_buf, data) ==
    sync_all(write_all(write_all(seek(s, mda_offset(header_size, index + 1, region_size)),
                                 hdr_buf),
                       data))

\* save_region with the sync_all before the two write_all calls
save_region_sync_first(s, index, header_size, region_size, hdr_buf, data) ==
    write_all(write_all(sync_all(seek(s, mda_offset(header_size, index, region_size))),
                        hdr_buf),
              data)

\* MDARegions::save_state, closure save_region
save_region(s, index, header_size, region_size, hdr_buf, data) ==
    sync_all(write_all(write_all(seek(s, mda_offset(header_size, index, region_size)),
                                 hdr_buf),
                       data))

\* MDARegions::save_state without save_region(older_region + 2)
MDARegions_save_state_primary_only(regions, header_size, time, data, s) ==
    IF opt_time_ge(last_update_time(regions), Some(time))
    THEN [s |-> s, res |-> Err("Invalid"), regions |-> regions]
    ELSE LET region_size == sectors_bytes(regions.region_size)
             used == BLen(data)
             header == [last_updated |-> time, used |-> used,
                        data_crc |-> checksum_castagnoli(data)]
             older_region == older(regions)
             result(s1) ==
                 IF s1.err
                 THEN [s |-> s1, res |-> Err("Io"), regions |-> regions]
                 ELSE [s |-> s1, res |-> Ok(<<>>),
                       regions |-> [regions EXCEPT !.mdas[older_region] = Some(header)]]
         IN  IF ~check_mda_region_size(used, region_size).ok
             THEN [s |-> s, res |-> check_mda_region_size(used, region_size),
                   regions |-> regions]
             ELSE result(save_region(s, older_region, header_size, region_size,
                                     to_buf(header), data))

\* save_state that records the header in memory before it writes
MDARegions_save_state_update_first(regions, header_size, time, data, s) ==
    IF opt_time_ge(last_update_time(regions), Some(time))
    THEN [s |-> s, res |-> Err("Invalid"), regions |-> regions]
    ELSE LET region_size == sectors_bytes(regions.region_size)
             used == BLen(data)
             header == [last_updated |-> time, used |-> used,
                        data_crc |-> checksum_castagnoli(data)]
             older_region == older(regions)
             result(s2) ==
                 IF s2.err
                 THEN [s |-> s2, res |-> Err("Io"),
                       regions |-> [regions EXCEPT !.mdas[older_region] = Some(header)]]
                 ELSE [s |-> s2, res |-> Ok(<<>>),
                       regions |-> [regions EXCEPT !.mdas[older_region] = Some(header)]]
             save_regions(hdr_buf) ==
                 result(save_region(save_region(s, older_region, header_size, region_size,
                                                hdr_buf, data),
                                    older_region + 2, header_size, region_size, hdr_buf,
                                    data))
         IN  IF ~check_mda_region_size(used, region_size).ok
             THEN [s |-> s, res |-> check_mda_region_size(used, region_size),
                   regions |-> regions]
             ELSE save_regions(to_buf(header))

\* MDARegions::save_state: [s, res, regions], regions the MDARegions afterwards
MDARegions_save_state(regions, header_size, time, data, s) ==
    IF opt_time_ge(last_update_time(regions), Some(time))
    THEN [s |-> s, res |-> Err("Invalid"), regions |-> regions]
    ELSE LET region_size == sectors_bytes(regions.region_size)
             used == BLen(data)
             header == [last_updated |-> time, used |-> used,
                        data_crc |-> checksum_castagnoli(data)]
             older_region == older(regions)
             result(s2) ==
                 IF s2.err
                 THEN [s |-> s2, res |-> Err("Io"), regions |-> regions]
                 ELSE [s |-> s2, res |-> Ok(<<>>),
                       regions |-> [regions EXCEPT !.mdas[older_region] = Some(header)]]
             save_regions(hdr_buf) ==
                 result(save_region(save_region(s, older_region, header_size, region_size,
                                                hdr_buf, data),
                                    older_region + 2, header_size, region_size, hdr_buf,
                                    data))
         IN  IF ~check_mda_region_size(used, region_size).ok
             THEN [s |-> s, res |-> check_mda_region_size(used, region_size),
                   regions |-> regions]
             ELSE save_regions(to_buf(header))

\* MDARegions::load_state, closure load_region
load_state_region(s, mda, index, header_size, region_size) ==
    LET offset == mda_offset(header_size, index, region_size) + MDA_REGION_HDR_SIZE
        result(got) == [s |-> caught(got.s), res |-> got.res]
    IN  result(load_region(mda, seek(s, offset)))

\* MDARegions::load_state
MDARegions_load_state(regions, header_size, s) ==
    LET newer_region == newer(regions)
        region_size == sectors_bytes(regions.region_size)
        some(got) == IF got.res.ok THEN [s |-> got.s, res |-> Ok(Some(got.res.val))] ELSE got
        or_else(mda, first) ==
            IF first.res.ok THEN some(first)
            ELSE some(load_state_region(first.s, mda, newer_region + 2, header_size,
                                        region_size))
        load(mda) ==
            or_else(mda, load_state_region(s, mda, newer_region, header_size, region_size))
    IN  IF ~is_some(regions.mdas[newer_region]) THEN [s |-> s, res |-> Ok(None)]
        ELSE load(unwrap(regions.mdas[newer_region]))

-----------------------------------------------------------------------------
(* BDA = [header, regions] *)

\* BDA::read, fn read_sector_at_offset
\* buf is the caller's buffer afterwards: [0u8; SECTOR_SIZE] as it was if the
\* seek failed, the s.partial bytes that arrived before the error if the
\* read_exact failed, the sector if it succeeded
read_sector_at_offset(s, offset) ==
    LET result(s1, s2) ==
            [s |-> caught(s2),
             res |-> IF s2.err THEN Err("Io") ELSE Ok(read_buf(s1, SECTOR_SIZE)),
             buf |-> IF s1.err THEN Zeros(SECTOR_SIZE)
                     ELSE IF s2.err
                     THEN Put(Zeros(SECTOR_SIZE), 0, read_buf(s1, s.partial))
                     ELSE read_buf(s1, SECTOR_SIZE)]
        read(s1) == result(s1, read_exact(s1, SECTOR_SIZE))
    IN  read(seek(s, offset))

\* BDA::read: both buffers are returned unless both reads failed
BDA_read(s) ==
    LET buf_of(loc) == loc.buf
        result(loc_1, loc_2) ==
            [s |-> loc_2.s,
             res |-> IF ~loc_1.res.ok /\ ~loc_2.res.ok THEN loc_1.res
                     ELSE Ok(<<buf_of(loc_1), buf_of(loc_2)>>)]
        second(loc_1) == result(loc_1, read_sector_at_offset(loc_1.s, 9 * SECTOR_SIZE))
    IN  second(read_sector_at_offset(s, SECTOR_SIZE))

\* write_region without the sync_all
write_region_unsynced(s, bda_buf) ==
    write_all(write_all(write_all(s, Zeros(SECTOR_SIZE)), bda_buf), Zeros(SECTOR_SIZE * 6))

\* BDA::write, fn write_region
write_region(s, bda_buf) ==
    sync_all(write_all(write_all(write_all(s, Zeros(SECTOR_SIZE)), bda_buf),
                       Zeros(SECTOR_SIZE * 6)))

\* BDA::write with First and Second taken for each other
BDA_write_swapped(s, bda_buf, which) ==
    LET second(s1) ==
            IF which = "Both" \/ which = "First" THEN write_region(s1, bda_buf) ELSE s1
        first(s0) ==
            second(IF which = "Both" \/ which = "Second" THEN write_region(s0, bda_buf)
                   ELSE seek(s0, 8 * SECTOR_SIZE))
    IN  first(seek(s, 0))

\* BDA::write, which one of MetadataLocation::{Both, First, Second}: the
\* stream afterwards, its err set when a call failed
BDA_write(s, bda_buf, which) ==
    LET second(s1) ==
            IF which = "Both" \/ which = "Second" THEN write_region(s1, bda_buf) ELSE s1
        first(s0) ==
            second(IF which = "Both" \/ which = "First" THEN write_region(s0, bda_buf)
                   ELSE seek(s0, 8 * SECTOR_SIZE))
    IN  first(seek(s, 0))

\* setup_rewrite without the BDA::write
setup_rewrite_nothing(s, buf, which, header) == [s |-> s, res |-> Ok(header)]

\* setup_rewrite that returns the header after zeroing the copy it should repair
setup_rewrite_zeroed(s, buf, which, header) ==
    LET result(s1) == [s |-> s1, res |-> IF s1.err THEN Err("Io") ELSE Ok(header)]
    IN  result(BDA_write(s, Zeros(SECTOR_SIZE), which))

\* StaticHeader::setup, a branch that rewrites one copy and returns the other
setup_rewrite(s, buf, which, header) ==
    LET result(s1) == [s |-> s1, res |-> IF s1.err THEN Err("Io") ELSE Ok(header)]
    IN  result(BDA_write(s, buf, which))

\* setup that keeps copy 1 when the initialization times are equal
StaticHeader_setup_first_on_tie(s) ==
    LET match(s1, buf_loc_1, buf_loc_2, loc_1, loc_2) ==
            IF loc_1.ok /\ loc_2.ok
            THEN IF is_some(loc_1.val) /\ is_some(loc_2.val)
                 THEN IF loc_1.val = loc_2.val THEN [s |-> s1, res |-> Ok(loc_1.val)]
                      ELSE IF unwrap(loc_1.val).initialization_time
                                  >= unwrap(loc_2.val).initialization_time
                      THEN setup_rewrite(s1, buf_loc_1, "Second", loc_1.val)
                      ELSE setup_rewrite(s1, buf_loc_2, "First", loc_2.val)
                 ELSE IF ~is_some(loc_1.val) /\ ~is_some(loc_2.val)
                 THEN [s |-> s1, res |-> Ok(None)]
                 ELSE IF is_some(loc_1.val)
                 THEN setup_rewrite(s1, buf_loc_1, "Second", loc_1.val)
                 ELSE setup_rewrite(s1, buf_loc_2, "First", loc_2.val)
            ELSE IF loc_1.ok
            THEN IF is_some(loc_1.val)
                 THEN setup_rewrite(s1, buf_loc_1, "Second", loc_1.val)
                 ELSE [s |-> s1, res |-> loc_2]
            ELSE IF loc_2.ok
            THEN IF is_some(loc_2.val)
                 THEN setup_rewrite(s1, buf_loc_2, "First", loc_2.val)
                 ELSE [s |-> s1, res |-> loc_1]
            ELSE [s |-> s1, res |-> Err("Invalid")]
        decode(s1, buf_loc_1, buf_loc_2) ==
            match(s1, buf_loc_1, buf_loc_2, sigblock_from_buf(buf_loc_1),
                  sigblock_from_buf(buf_loc_2))
        read(bufs) ==
            IF ~bufs.res.ok THEN bufs
            ELSE decode(bufs.s, bufs.res.val[1], bufs.res.val[2])
    IN  read(BDA_read(s))

\* setup that writes copy 2 again when the two copies are equal
StaticHeader_setup_rewrite_equal(s) ==
    LET match(s1, buf_loc_1, buf_loc_2, loc_1, loc_2) ==
            IF loc_1.ok /\ loc_2.ok
            THEN IF is_some(loc_1.val) /\ is_some(loc_2.val)
                 THEN IF loc_1.val = loc_2.val
                      THEN setup_rewrite(s1, buf_loc_1, "Second", loc_1.val)
                      ELSE IF unwrap(loc_1.val).initialization_time
                                  > unwrap(loc_2.val).initialization_time
                      THEN setup_rewrite(s1, buf_loc_1, "Second", loc_1.val)
                      ELSE setup_rewrite(s1, buf_loc_2, "First", loc_2.val)
                 ELSE IF ~is_some(loc_1.val) /\ ~is_some(loc_2.val)
                 THEN [s |-> s1, res |-> Ok(None)]
                 ELSE IF is_some(loc_1.val)
                 THEN setup_rewrite(s1, buf_loc_1, "Second", loc_1.val)
                 ELSE setup_rewrite(s1, buf_loc_2, "First", loc_2.val)
            ELSE IF loc_1.ok
            THEN IF is_some(loc_1.val)
                 THEN setup_rewrite(s1, buf_loc_1, "Second", loc_1.val)
                 ELSE [s |-> s1, res |-> loc_2]
            ELSE IF loc_2.ok
            THEN IF is_some(loc_2.val)
                 THEN setup_rewrite(s1, buf_loc_2, "First", loc_2.val)
                 ELSE [s |-> s1, res |-> loc_1]
            ELSE [s |-> s1, res |-> Err("Invalid")]
        decode(s1, buf_loc_1, buf_loc_2) ==
            match(s1, buf_loc_1, buf_loc_2, sigblock_from_buf(buf_loc_1),
                  sigblock_from_buf(buf_loc_2))
        read(bufs) ==
            IF ~bufs.res.ok THEN bufs
            ELSE decode(bufs.s, bufs.res.val[1], bufs.res.val[2])
    IN  read(BDA_read(s))

\* StaticHeader::setup
StaticHeader_setup(s) ==
    LET match(s1, buf_loc_1, buf_loc_2, loc_1, loc_2) ==
            IF loc_1.ok /\ loc_2.ok
            THEN IF is_some(loc_1.val) /\ is_some(loc_2.val)
                 THEN IF loc_1.val = loc_2.val THEN [s |-> s1, res |-> Ok(loc_1.val)]
                      ELSE IF unwrap(loc_1.val).initialization_time
                                  > unwrap(loc_2.val).initialization_time
                      THEN setup_rewrite(s1, buf_loc_1, "Second", loc_1.val)
                      ELSE setup_rewrite(s1, buf_loc_2, "First", loc_2.val)
                 ELSE IF ~is_some(loc_1.val) /\ ~is_some(loc_2.val)
                 THEN [s |-> s1, res |-> Ok(None)]
                 ELSE IF is_some(loc_1.val)
                 THEN setup_rewrite(s1, buf_loc_1, "Second", loc_1.val)
                 ELSE setup_rewrite(s1, buf_loc_2, "First", loc_2.val)
            ELSE IF loc_1.ok
            THEN IF is_some(loc_1.val)
                 THEN setup_rewrite(s1, buf_loc_1, "Second", loc_1.val)
                 ELSE [s |-> s1, res |-> loc_2]
            ELSE IF loc_2.ok
            THEN IF is_some(loc_2.val)
                 THEN setup_rewrite(s1, buf_loc_2, "First", loc_2.val)
                 ELSE [s |-> s1, res |-> loc_1]
            ELSE [s |-> s1, res |-> Err("Invalid")]
        decode(s1, buf_loc_1, buf_loc_2) ==
            match(s1, buf_loc_1, buf_loc_2, sigblock_from_buf(buf_loc_1),
                  sigblock_from_buf(buf_loc_2))
        read(bufs) ==
            IF ~bufs.res.ok THEN bufs
            ELSE decode(bufs.s, bufs.res.val[1], bufs.res.val[2])
    IN  read(BDA_read(s))

\* device_identifiers with the two UUIDs in the other order
device_identifiers_dev_first(s) ==
    LET map(got) ==
            IF got.res.ok /\ is_some(got.res.val)
            THEN [s |-> got.s,
                  res |-> Ok(Some(<<unwrap(got.res.val).dev_uuid,
                                    unwrap(got.res.val).pool_uuid>>))]
            ELSE got
    IN  map(StaticHeader_setup(s))

\* StaticHeader::device_identifiers
device_identifiers(s) ==
    LET map(got) ==
            IF got.res.ok /\ is_some(got.res.val)
            THEN [s |-> got.s,
                  res |-> Ok(Some(<<unwrap(got.res.val).pool_uuid,
                                    unwrap(got.res.val).dev_uuid>>))]
            ELSE got
    IN  map(StaticHeader_setup(s))

\* BDA::initialize that writes the first sigblock copy only
BDA_initialize_first_only(s, pool_uuid, dev_uuid, mda_size, blkdev_size, initialization_time) ==
    LET header == StaticHeader_new(pool_uuid, dev_uuid, mda_size, blkdev_size,
                                   initialization_time)
        result(regions) ==
            IF ~regions.res.ok THEN regions
            ELSE [s |-> regions.s,
                  res |-> Ok([header |-> header, regions |-> regions.res.val])]
        written(s1) ==
            IF s1.err THEN [s |-> s1, res |-> Err("Io")]
            ELSE result(MDARegions_initialize(BDA_STATIC_HDR_SIZE, header.mda_size, s1))
    IN  written(BDA_write(s, sigblock_to_buf(header), "First"))

\* BDA::initialize
BDA_initialize(s, pool_uuid, dev_uuid, mda_size, blkdev_size, initialization_time) ==
    LET header == StaticHeader_new(pool_uuid, dev_uuid, mda_size, blkdev_size,
                                   initialization_time)
        result(regions) ==
            IF ~regions.res.ok THEN regions
            ELSE [s |-> regions.s,
                  res |-> Ok([header |-> header, regions |-> regions.res.val])]
        written(s1) ==
            IF s1.err THEN [s |-> s1, res |-> Err("Io")]
            ELSE result(MDARegions_initialize(BDA_STATIC_HDR_SIZE, header.mda_size, s1))
    IN  written(BDA_write(s, sigblock_to_buf(header), "Both"))

\* BDA::load
BDA_load(s) ==
    LET result(header, regions) ==
            IF ~regions.res.ok THEN regions
            ELSE [s |-> regions.s,
                  res |-> Ok(Some([header |-> header, regions |-> regions.res.val]))]
        found(s1, header) ==
            result(header, MDARegions_load(BDA_STATIC_HDR_SIZE, header.mda_size, s1))
        match(header) ==
            IF ~header.res.ok THEN header
            ELSE IF ~is_some(header.res.val) THEN [s |-> header.s, res |-> Ok(None)]
            ELSE found(header.s, unwrap(header.res.val))
    IN  match(StaticHeader_setup(s))

\* BDA::wipe that zeroes the first eight sectors only
BDA_wipe_first_copy(s) ==
    LET result(s1) == [s |-> s1, res |-> IF s1.err THEN Err("Io") ELSE Ok(<<>>)]
    IN  result(sync_all(write_all(seek(s, 0), Zeros(8 * SECTOR_SIZE))))

\* BDA::wipe
BDA_wipe(s) ==
    LET result(s1) == [s |-> s1, res |-> IF s1.err THEN Err("Io") ELSE Ok(<<>>)]
    IN  result(sync_all(write_all(seek(s, 0), Zeros(BDA_STATIC_HDR_SIZE))))

\* BDA::save_state
BDA_save_state(b, time, metadata, s) ==
    LET result(got) ==
            [s |-> got.s, res |-> got.res, bda |-> [b EXCEPT !.regions = got.regions]]
    IN  result(MDARegions_save_state(b.regions, BDA_STATIC_HDR_SIZE, time, metadata, s))

\* BDA::load_state
BDA_load_state(b, s) == MDARegions_load_state(b.regions, BDA_STATIC_HDR_SIZE, s)

\* BDA::last_update_time
BDA_last_update_time(b) == last_update_time(b.regions)

\* BDA::max_data_size
BDA_max_data_size(b) == max_data_size(b.regions)

-----------------------------------------------------------------------------
(* Bounds and inputs *)

\* Timestamps have seconds 0..MaxSecs
MaxSecs == 1

\* BDA::initialize is called at most MaxInits times in a run
MaxInits == 1

\* At most MaxFaults stream calls fail in a run
MaxFaults == 1

\* The nanoseconds of a timestamp: the least and the greatest
Nsecs == {0, 999999999}

Times == {Timestamp(secs, nsecs) : secs \in 0..MaxSecs, nsecs \in Nsecs}

\* Payloads of different lengths, one a prefix of no other
Datas == {B(<<7>>), B(<<8, 9>>)}

\* The payload saved to a device whose stream calls can fail
FaultDatas == {B(<<8, 9>>)}

Uuid1 == [i \in 0..15 |-> (17 * i) % 256]

Uuid2 == [i \in 0..15 |-> 171]

Uuid3 == [i \in 0..15 |-> IF i = 15 THEN 2 ELSE 0]

\* The arguments of BDA::initialize: <<pool_uuid, dev_uuid, mda_size, blkdev_size,
\* initialization_time>>, the mda_size one that validate_mda_size accepts
InitArgs ==
    {<<Uuid1, Uuid3, MIN_MDA_SECTORS, 70000, 1600000000>>,
     <<Uuid2, Uuid1, MIN_MDA_SECTORS + 4, 4194304, 1600000001>>}

Uuids == {Uuid1, Uuid2, Uuid3}

\* The arguments of BDA::initialize of the ownership test: every pair of UUIDs
OwnerArgs ==
    {<<pool_uuid, dev_uuid, mda_size, blkdev_size, 1600000000>> :
        pool_uuid \in Uuids, dev_uuid \in Uuids,
        mda_size \in {MIN_MDA_SECTORS, MIN_MDA_SECTORS + 4},
        blkdev_size \in {70000, 4194304}}

\* The headers of the codec test; the mda_size of some is one that
\* validate_mda_size rejects
Headers ==
    {StaticHeader_new(pool_uuid, dev_uuid, mda_size, blkdev_size, 1600000000) :
        pool_uuid \in Uuids, dev_uuid \in {Uuid1, Uuid3},
        mda_size \in {MIN_MDA_SECTORS, MIN_MDA_SECTORS + 4, MIN_MDA_SECTORS - 4,
                      MIN_MDA_SECTORS + 1},
        blkdev_size \in {70000, 4194304}}

\* Where the second of two corruptions falls in its sector: the CRC, the
\* bytes on both sides of each end of the magic, the last byte
SecondCorruptions == {0, 3, 4, 19, 20, 511}

\* By how much the initialization_time of a planted sigblock is older
Ages == {1, 1600000000}

\* How many bytes of the write_all that a crash interrupts reach the device:
\* none, a part of the CRC, the CRC and the magic, a part of the fields
TornLens == {0, 3, 20, 100}

\* BDA::initialize makes 9 stream calls in BDA::write and 9 in
\* MDARegions::initialize; a crash interrupts one of them
CrashPoints == 1..18

\* Payloads about as long as a region of each mda size of InitArgs: with the
\* 32 bytes of the header they fill the region, they exceed it by one byte,
\* they are as long as the region; the first and the last byte are not zero
LongDatas ==
    {[len |-> sectors_bytes(a[3] \div NUM_MDA_REGIONS) - less,
      nz |-> [o \in {0, sectors_bytes(a[3] \div NUM_MDA_REGIONS) - less - 1} |->
                 IF o = 0 THEN 5 ELSE 6]] :
        a \in InitArgs, less \in {MDA_REGION_HDR_SIZE, MDA_REGION_HDR_SIZE - 1, 0}}

\* Where a byte of an MDA region is corrupted: in the CRC of the header, in
\* its timestamp, its last byte, and the two bytes of the payload
RegionCorruptions == {0, 16, 31, 32, 33}

\* A save_state makes 2 * 4 stream calls and stops at the first that fails
SaveFails == {{}} \cup {{k} : k \in 1..(2 * 4)}

ZeroStream ==
    [bytes |-> <<>>, pos |-> 0, log |-> <<>>, fail |-> {}, err |-> FALSE, partial |-> 0]

\* Offsets of a device that was used for something else: the ends of the
\* sectors around the two sigblocks, the magic, and the ends of the first 32
\* bytes of the MDA regions, for both mda sizes of InitArgs
UsedOffsets ==
    {0, 511, 512, 516, 1023, 1024, 4095, 4096, 4607, 4608, 4612, 5119, 5120, 8191}
    \cup {mda_offset(BDA_STATIC_HDR_SIZE, i, sectors_bytes(a[3] \div NUM_MDA_REGIONS)) + o :
             i \in 0..(NUM_MDA_REGIONS - 1), a \in InitArgs, o \in {0, 31, 32}}

\* What a device holds before its first BDA::initialize: zeroes, as the
\* Cursor of the tests; bytes of an earlier use; the first sigblock copy of
\* a BDA::initialize that went no further
PriorContents ==
    {<<>>, [o \in UsedOffsets |-> 255], [o \in UsedOffsets |-> 1 + (o % 7)]}
    \cup {Overlay(<<>>, SECTOR_SIZE,
                  sigblock_to_buf(StaticHeader_new(a[1], a[2], a[3], a[4], a[5]))) :
             a \in InitArgs}

NoCall == [op |-> "none", args |-> <<>>, res |-> Ok(<<>>)]

\* hist.inits      BDA::initialize calls so far
\* hist.faults     stream calls that failed so far
\* hist.phase      "saves": since the last successful BDA::initialize, only
\*                 successful save_state calls (and load_state calls);
\*                 "reopened": the last call is a BDA::load that followed that;
\*                 "other": anything else
\* hist.last       the last successful save_state since that initialize: its
\*                 time, its data and the slots its write_all calls went to
\* hist.corrupt    the offset corrupted in sigblock copy 1 and in copy 2
\* hist.planted    Some(copy): that copy was replaced by an older valid sigblock
NoHist ==
    [inits |-> 0, faults |-> 0, phase |-> "other", last |-> None,
     corrupt |-> <<None, None>>, planted |-> None]

\* hist after a call that is neither initialize, save_state, load_state nor load
hist_other == [hist EXCEPT !.phase = "other"]

CodecIdle == sh = None /\ sigbuf = None /\ decoded = None

Init ==
    /\ f = ZeroStream
    /\ bda = None
    /\ ret = NoCall
    /\ hist = NoHist
    /\ reference = None
    /\ CodecIdle

\* A device with earlier contents, no BDA call made yet
InitDevice ==
    /\ f \in {[ZeroStream EXCEPT !.bytes = prior] : prior \in PriorContents}
    /\ bda = None
    /\ ret = NoCall
    /\ hist = NoHist
    /\ reference = None
    /\ CodecIdle

-----------------------------------------------------------------------------
(* The calls of a client, one action each *)

Initialize(pool_uuid, dev_uuid, mda_size, blkdev_size, initialization_time) ==
    /\ hist.inits < MaxInits
    /\ LET returns(got) ==
               /\ f' = end_call(got.s)
               /\ bda' = IF got.res.ok THEN Some(got.res.val) ELSE None
               /\ ret' = [op |-> "initialize",
                          args |-> <<pool_uuid, dev_uuid, mda_size, blkdev_size,
                                     initialization_time>>,
                          res |-> got.res]
               /\ hist' = [hist EXCEPT !.inits = @ + 1,
                                       !.phase = IF got.res.ok THEN "saves" ELSE "other",
                                       !.last = None,
                                       !.corrupt = <<None, None>>,
                                       !.planted = None]
       IN  returns(BDA_initialize(begin_call(f, {}), pool_uuid, dev_uuid, mda_size,
                                  blkdev_size, initialization_time))
    /\ reference' = None
    /\ UNCHANGED <<sh, sigbuf, decoded>>

Load ==
    /\ LET returns(got) ==
               /\ f' = end_call(got.s)
               /\ bda' = IF got.res.ok THEN got.res.val ELSE None
               /\ ret' = [op |-> "load", args |-> <<>>, res |-> got.res]
       IN  returns(BDA_load(begin_call(f, {})))
    /\ hist' = [hist EXCEPT !.phase = IF hist.phase = "saves" THEN "reopened" ELSE "other"]
    /\ UNCHANGED <<reference, sh, sigbuf, decoded>>

DeviceIdentifiers ==
    /\ LET returns(got) ==
               /\ f' = end_call(got.s)
               /\ ret' = [op |-> "device_identifiers", args |-> <<>>, res |-> got.res]
       IN  returns(device_identifiers(begin_call(f, {})))
    /\ hist' = hist_other
    /\ UNCHANGED <<bda, reference, sh, sigbuf, decoded>>

Wipe ==
    /\ LET returns(got) ==
               /\ f' = end_call(got.s)
               /\ ret' = [op |-> "wipe", args |-> <<>>, res |-> got.res]
       IN  returns(BDA_wipe(begin_call(f, {})))
    /\ hist' = hist_other
    /\ UNCHANGED <<bda, reference, sh, sigbuf, decoded>>

\* The logical slots of b the write_all calls of log went to: a write at an
\* offset in region i or region i + 2 goes to slot i
written_slots(log, b) ==
    {((log[k][2] - BDA_STATIC_HDR_SIZE) \div sectors_bytes(b.regions.region_size)) % 2 :
         k \in {j \in 1..Len(log) : log[j][1] = "write_all"}}

\* bda.save_state(&time, &data, &mut f), the stream calls in fail failing
SaveState(time, data, fail) ==
    /\ is_some(bda)
    /\ hist.faults + Cardinality(fail) <= MaxFaults
    /\ LET returns(got) ==
               /\ fail # {} => got.s.err
               /\ f' = end_call(got.s)
               /\ bda' = Some(got.bda)
               /\ ret' = [op |-> "save_state", args |-> <<time, data>>, res |-> got.res]
               /\ hist' = [hist EXCEPT !.phase = IF hist.phase = "saves" /\ got.res.ok
                                                 THEN "saves" ELSE "other",
                                       !.last = IF got.res.ok
                                                THEN Some(<<time, data,
                                                            written_slots(got.s.log,
                                                                          unwrap(bda))>>)
                                                ELSE @,
                                       !.faults = @ + Cardinality(fail)]
       IN  returns(BDA_save_state(unwrap(bda), time, data, begin_call(f, fail)))
    /\ UNCHANGED <<reference, sh, sigbuf, decoded>>

LoadState ==
    /\ is_some(bda)
    /\ LET returns(got) ==
               /\ f' = end_call(got.s)
               /\ ret' = [op |-> "load_state", args |-> <<>>, res |-> got.res]
       IN  returns(BDA_load_state(unwrap(bda), begin_call(f, {})))
    /\ hist' = [hist EXCEPT !.phase = IF hist.phase = "saves" THEN "saves" ELSE "other"]
    /\ UNCHANGED <<bda, reference, sh, sigbuf, decoded>>

\* The offset of sigblock copy 1 or 2
sigblock_offset(copy) == IF copy = 1 THEN SECTOR_SIZE ELSE 9 * SECTOR_SIZE

\* tests::corrupt_byte
corrupt_byte(s, position) ==
    LET write(s1, byte_to_corrupt) ==
            sync_all(write_all(seek(s1, position), B(<<255 - byte_to_corrupt>>)))
        read(s0) == write(read_exact(s0, 1), At(read_buf(s0, 1), 0))
    IN  read(seek(s, position))

\* bda_test_recovery: after BDA::initialize, corrupt_byte in one copy, then
\* possibly in the other; reference_buf is the stream before the first
CorruptByte(copy, index) ==
    /\ is_some(bda)
    /\ \/ ret.op = "initialize" /\ ret.res.ok
       \/ ret.op = "corrupt_byte"
    /\ hist.corrupt[copy] = None
    /\ hist.corrupt # <<None, None>> => index \in SecondCorruptions
    /\ f' = end_call(corrupt_byte(begin_call(f, {}), sigblock_offset(copy) + index))
    /\ ret' = [op |-> "corrupt_byte", args |-> <<sigblock_offset(copy) + index>>,
               res |-> Ok(<<>>)]
    /\ hist' = [hist EXCEPT !.phase = "other", !.corrupt[copy] = Some(index)]
    /\ reference' = IF is_some(reference) THEN reference ELSE Some(f.bytes)
    /\ UNCHANGED <<bda, sh, sigbuf, decoded>>

\* bda_test_rewrite_older: after BDA::initialize, the sector of one copy is
\* replaced by the sigblock of the same header initialized earlier;
\* reference_buf is the stream before that
PlantOlder(copy, age) ==
    /\ is_some(bda)
    /\ ret.op = "initialize" /\ ret.res.ok
    /\ unwrap(bda).header.initialization_time >= age
    /\ LET sector == sigblock_to_buf([unwrap(bda).header EXCEPT
                                          !.initialization_time = @ - age])
           s == begin_call(f, {})
       IN  f' = end_call(write_all(seek(s, sigblock_offset(copy)), sector))
    /\ ret' = [op |-> "plant_older", args |-> <<copy, age>>, res |-> Ok(<<>>)]
    /\ hist' = [hist EXCEPT !.phase = "other", !.planted = Some(copy)]
    /\ reference' = Some(f.bytes)
    /\ UNCHANGED <<bda, sh, sigbuf, decoded>>

\* corrupt_byte in one of the four MDA regions, after a save_state
CorruptRegion(region, index) ==
    /\ is_some(bda)
    /\ ret.op = "save_state" /\ ret.res.ok
    /\ hist.phase = "saves"
    /\ f' = end_call(corrupt_byte(begin_call(f, {}),
                                  mda_offset(BDA_STATIC_HDR_SIZE, region,
                                             sectors_bytes(unwrap(bda).regions.region_size))
                                      + index))
    /\ ret' = [op |-> "corrupt_region", args |-> <<region, index>>, res |-> Ok(<<>>)]
    /\ hist' = hist_other
    /\ UNCHANGED <<bda, reference, sh, sigbuf, decoded>>

\* StaticHeader::setup(&mut f)
Setup ==
    /\ LET returns(got) ==
               /\ f' = end_call(got.s)
               /\ ret' = [op |-> "setup", args |-> <<>>, res |-> got.res]
       IN  returns(StaticHeader_setup(begin_call(f, {})))
    /\ hist' = hist_other
    /\ UNCHANGED <<bda, reference, sh, sigbuf, decoded>>

\* sh.sigblock_to_buf()
Encode ==
    /\ is_some(sh) /\ ~is_some(sigbuf)
    /\ sigbuf' = Some(sigblock_to_buf(unwrap(sh)))
    /\ UNCHANGED <<f, bda, ret, hist, reference, sh, decoded>>

\* StaticHeader::sigblock_from_buf(&buf)
Decode ==
    /\ is_some(sigbuf) /\ ~is_some(decoded)
    /\ decoded' = Some(sigblock_from_buf(unwrap(sigbuf)))
    /\ UNCHANGED <<f, bda, ret, hist, reference, sh, sigbuf>>

\* The write_all calls of log that succeeded after the last sync_all that
\* succeeded: the device need not hold them when the power is lost
unsynced_writes(log) ==
    {k \in 1..Len(log) :
        /\ log[k][1] = "write_all" /\ log[k][4]
        /\ \A m \in (k + 1)..Len(log) : ~(log[m][1] = "sync_all" /\ log[m][4])}

\* The offsets that the write_all calls `lost` of log wrote
lost_offsets(log, lost, bytes) ==
    {o \in DOMAIN bytes : \E k \in lost : o >= log[k][2] /\ o < log[k][2] + log[k][3]}

\* What the device holds after the power was lost in the stream call that
\* ends s.log: the bytes `before` the BDA call, the writes that were synced,
\* of the unsynced writes those in persist, and the first torn bytes of the
\* interrupted write_all, taken from `full`, the stream of the whole call
crash_bytes(before, s, full, persist, torn) ==
    LET lost == unsynced_writes(s.log) \ persist
        gone == lost_offsets(s.log, lost, s.bytes)
        back == lost_offsets(s.log, lost, before)
        durable == [o \in (DOMAIN s.bytes \ gone) \cup back |->
                        IF o \in back THEN before[o] ELSE s.bytes[o]]
        last == s.log[Len(s.log)]
    IN  IF last[1] = "write_all"
        THEN Overlay(durable, last[2],
                     Window(full.bytes, last[2], IF torn < last[3] THEN torn ELSE last[3]))
        ELSE durable

\* BDA::initialize, the power lost in its stream call number point: the
\* process is gone, and the BDA with it
CrashInitialize(pool_uuid, dev_uuid, mda_size, blkdev_size, initialization_time, point, torn) ==
    /\ hist.faults < MaxFaults
    /\ LET dies(got, full) ==
               \E persist \in SUBSET unsynced_writes(got.s.log) :
                   /\ got.s.log[Len(got.s.log)][1] # "write_all" => torn = 0
                   /\ f' = [end_call(got.s) EXCEPT
                                !.bytes = crash_bytes(f.bytes, got.s, full.s, persist, torn),
                                !.pos = 0]
                   /\ ret' = [op |-> "crash",
                              args |-> <<pool_uuid, dev_uuid, mda_size, blkdev_size,
                                         initialization_time>>,
                              res |-> Err("Io")]
       IN  dies(BDA_initialize(begin_call(f, {point}), pool_uuid, dev_uuid, mda_size,
                               blkdev_size, initialization_time),
                BDA_initialize(begin_call(f, {}), pool_uuid, dev_uuid, mda_size,
                               blkdev_size, initialization_time))
    /\ bda' = None
    /\ hist' = [hist EXCEPT !.faults = @ + 1, !.phase = "other", !.last = None,
                            !.corrupt = <<None, None>>, !.planted = None]
    /\ reference' = Some(f.bytes)
    /\ UNCHANGED <<sh, sigbuf, decoded>>

-----------------------------------------------------------------------------
(* Metadata on a device whose stream calls all succeed: initialize,          *)
(* save_state, load_state, and reopening with load                           *)

Next ==
    \/ \E a \in InitArgs : Initialize(a[1], a[2], a[3], a[4], a[5])
    \/ \E time \in Times, data \in Datas : SaveState(time, data, {})
    \/ LoadState
    \/ Load

Spec == Init /\ [][Next]_vars

-----------------------------------------------------------------------------
(* Claims on Spec *)

\* bda.load_state(&mut f) and bda.last_update_time() on the instance and the
\* stream of the current state
loaded == BDA_load_state(unwrap(bda), begin_call(f, {})).res

updated == BDA_last_update_time(unwrap(bda))

\* C1: after a successful save_state(t, d), on a fresh BDA or after earlier
\* saves, load_state() on the same instance and stream returns Some(d) and
\* last_update_time() is Some(t).
C1_SaveThenLoad ==
    (ret.op = "save_state" /\ ret.res.ok) =>
        /\ loaded = Ok(Some(ret.args[2]))
        /\ updated = Some(ret.args[1])

\* C1, its case: a save_state that followed an earlier save has succeeded, and
\* load_state returns its payload.
C1_Witness ==
    /\ ret.op = "save_state" /\ ret.res.ok
    /\ \A i \in 0..1 : is_some(unwrap(bda).regions.mdas[i])
    /\ loaded = Ok(Some(ret.args[2]))

\* C2: when save_state(t_new, d_new) has succeeded and the next call is
\* save_state(t_old, d) with t_old <= t_new, equality included, that call
\* returns an Invalid error, and after it load_state() returns Some(d_new) and
\* last_update_time() is Some(t_new).
C2_MonotonicSave ==
    [][(/\ ret.op = "save_state" /\ ret.res.ok
        /\ ret'.op = "save_state"
        /\ ~time_lt(ret.args[1], ret'.args[1]))
       => /\ ret'.res = Err("Invalid")
          /\ BDA_load_state(unwrap(bda'), begin_call(f', {})).res = Ok(Some(ret.args[2]))
          /\ BDA_last_update_time(unwrap(bda')) = Some(ret.args[1])]_vars

\* C2, its case: a save_state with the timestamp of the last successful one has
\* been rejected, and load_state returns the payload of that one.
C2_Witness ==
    /\ ret.op = "save_state" /\ ret.res = Err("Invalid")
    /\ is_some(hist.last)
    /\ ret.args[1] = unwrap(hist.last)[1]
    /\ ret.args[2] # unwrap(hist.last)[2]
    /\ loaded = Ok(Some(unwrap(hist.last)[2]))

\* C3: after BDA::initialize and a non-empty sequence of successful save_state
\* calls, the last of them save_state(t, d), BDA::load on the same stream
\* returns a BDA whose load_state() returns Some(d) and whose
\* last_update_time() is Some(t).
C3_Reopen ==
    (hist.phase = "reopened" /\ is_some(hist.last)) =>
        /\ ret.res.ok /\ is_some(ret.res.val)
        /\ loaded = Ok(Some(unwrap(hist.last)[2]))
        /\ updated = Some(unwrap(hist.last)[1])

-----------------------------------------------------------------------------
(* Metadata on a device where a stream call of a save_state can fail *)

NextFaults ==
    \/ \E a \in InitArgs : Initialize(a[1], a[2], a[3], a[4], a[5])
    \/ \E time \in Times, data \in FaultDatas, fail \in SaveFails :
           SaveState(time, data, fail)
    \/ LoadState
    \/ Load

SpecFaults == Init /\ [][NextFaults]_vars

-----------------------------------------------------------------------------
(* Claims on SpecFaults *)

\* The byte of the stream at off
byte_at(bytes, off) == IF off \in DOMAIN bytes THEN bytes[off] ELSE 0

\* The first byte of MDA region i of BDA b, and the length of a region
region_start(b, i) ==
    mda_offset(BDA_STATIC_HDR_SIZE, i, sectors_bytes(b.regions.region_size))

region_len(b) == sectors_bytes(b.regions.region_size)

\* Region i of b as the stream bytes hold it: header and payload
region_bytes(bytes, b, i) == Window(bytes, region_start(b, i), region_len(b))

\* n bytes from off on lie in region i of b
in_region(b, i, off, n) ==
    off >= region_start(b, i) /\ off + n <= region_start(b, i) + region_len(b)

\* C9: a save_state call, successful or failed, leaves every byte of regions
\* newer and newer + 2 as it was, and every byte it writes lies in region older
\* or older + 2, older and newer those of the in-memory slots before the call.
C9_NewerSlotUntouched ==
    [][ret'.op = "save_state" =>
        LET b == unwrap(bda)
            o == older(b.regions)
            n == newer(b.regions)
        IN  /\ \A i \in {n, n + 2} :
                   region_bytes(f'.bytes, b, i) = region_bytes(f.bytes, b, i)
            /\ \A k \in 1..Len(f'.log) :
                   f'.log[k][1] = "write_all" =>
                       \/ in_region(b, o, f'.log[k][2], f'.log[k][3])
                       \/ in_region(b, o + 2, f'.log[k][2], f'.log[k][3])
            /\ \A off \in DOMAIN f.bytes \cup DOMAIN f'.bytes :
                   byte_at(f'.bytes, off) # byte_at(f.bytes, off) =>
                       in_region(b, o, off, 1) \/ in_region(b, o + 2, off, 1)]_vars

\* C9, its case: a save_state has failed after it wrote to the stream, on a
\* BDA whose newer slot holds a save.
C9_Witness ==
    /\ ret.op = "save_state" /\ ret.res = Err("Io")
    /\ \E k \in 1..Len(f.log) : f.log[k][1] = "write_all" /\ f.log[k][4]
    /\ is_some(unwrap(bda).regions.mdas[newer(unwrap(bda).regions)])

\* Regions i and i + 2 of the live BDA hold the same header bytes and the same
\* payload bytes, the first `used` bytes after the header
siblings_equal(i) ==
    LET b == unwrap(bda)
        hdr_1 == Window(f.bytes, region_start(b, i), MDA_REGION_HDR_SIZE)
        hdr_2 == Window(f.bytes, region_start(b, i + 2), MDA_REGION_HDR_SIZE)
        used == read_le(Slice(hdr_1, 8, 16))
    IN  /\ hdr_1 = hdr_2
        /\ Window(f.bytes, region_start(b, i) + MDA_REGION_HDR_SIZE, used)
               = Window(f.bytes, region_start(b, i + 2) + MDA_REGION_HDR_SIZE, used)

\* C10, as claimed: after initialize and after every successful save_state,
\* for each slot i in {0, 1} regions i and i + 2 hold the same header bytes and
\* the same payload bytes.
C10_SiblingsAlways ==
    (ret.op \in {"initialize", "save_state"} /\ ret.res.ok) =>
        \A i \in 0..1 : siblings_equal(i)

\* C10, amended: after initialize regions i and i + 2 hold the same header and
\* payload bytes for each slot i; after a successful save_state they do for the
\* slot it wrote, the newer slot of the instance.
C10_SiblingsOfWrittenSlot ==
    /\ (ret.op = "initialize" /\ ret.res.ok) => \A i \in 0..1 : siblings_equal(i)
    /\ (ret.op = "save_state" /\ ret.res.ok) =>
           siblings_equal(newer(unwrap(bda).regions))

\* C10, its case: a save_state has succeeded and the two regions of the slot
\* it wrote are equal, while those of the other slot differ.
C10_Witness ==
    /\ ret.op = "save_state" /\ ret.res.ok
    /\ siblings_equal(newer(unwrap(bda).regions))
    /\ ~siblings_equal(older(unwrap(bda).regions))

-----------------------------------------------------------------------------
(* Ownership: device_identifiers on a stream that is initialized and wiped *)

NextOwnership ==
    \/ \E a \in OwnerArgs : Initialize(a[1], a[2], a[3], a[4], a[5])
    \/ DeviceIdentifiers
    \/ Wipe

SpecOwnership == Init /\ [][NextOwnership]_vars

\* C4: device_identifiers returns Ok(None) on an all-zero stream; called after
\* BDA::initialize(pool_uuid, dev_uuid, ...) it returns
\* Ok(Some((pool_uuid, dev_uuid))); called after a BDA::wipe that followed, it
\* returns Ok(None).
C4_Ownership ==
    [][ret'.op = "device_identifiers" =>
        /\ f.bytes = <<>> => ret'.res = Ok(None)
        /\ (ret.op = "initialize" /\ ret.res.ok) =>
               ret'.res = Ok(Some(<<ret.args[1], ret.args[2]>>))
        /\ (ret.op = "wipe" /\ ret.res.ok /\ hist.inits > 0) =>
               ret'.res = Ok(None)]_vars

\* C4, its case: the stream has been initialized, with a pool UUID that is not
\* the device UUID, and device_identifiers now returns Ok(None): it was wiped.
C4_Witness ==
    /\ ret.op = "device_identifiers" /\ ret.res = Ok(None)
    /\ hist.inits > 0
    /\ is_some(bda)
    /\ unwrap(bda).header.pool_uuid # unwrap(bda).header.dev_uuid

-----------------------------------------------------------------------------
(* Recovery of the static header: setup after corrupt_byte in one sigblock   *)
(* copy or in both, and after an older sigblock was put in place of one      *)

NextRecovery ==
    \/ \E a \in InitArgs : Initialize(a[1], a[2], a[3], a[4], a[5])
    \/ \E copy \in 1..2, index \in 0..(SECTOR_SIZE - 1) : CorruptByte(copy, index)
    \/ \E copy \in 1..2, age \in Ages : PlantOlder(copy, age)
    \/ Setup

SpecRecovery == Init /\ [][NextRecovery]_vars

\* index is a byte of the magic, buf[4..20]
in_magic(index) == index >= 4 /\ index <= 19

\* The sector of sigblock copy 1 or 2 on the stream
sigblock_sector(copy) == Window(f.bytes, sigblock_offset(copy), SECTOR_SIZE)

\* C5: on an initialized device with one byte, at any of the offsets 0..511,
\* corrupted in exactly one of the two sigblock sectors, setup returns
\* Ok(Some(h)), h the header of the initialize, and leaves the stream equal
\* byte for byte to the reference taken before the corruption.
C5_SingleCorruptionRepaired ==
    (/\ ret.op = "setup"
     /\ \E copy \in 1..2 : /\ is_some(hist.corrupt[copy])
                          /\ ~is_some(hist.corrupt[3 - copy])) =>
        /\ ret.res = Ok(Some(unwrap(bda).header))
        /\ Some(f.bytes) = reference

\* C5, its case: setup has run after a byte of the magic of copy 2 was
\* corrupted, and has written to the stream.
C5_Witness ==
    /\ ret.op = "setup"
    /\ hist.corrupt[1] = None
    /\ is_some(hist.corrupt[2]) /\ in_magic(unwrap(hist.corrupt[2]))
    /\ \E k \in 1..Len(f.log) : f.log[k][1] = "write_all"
    /\ Some(f.bytes) = reference

\* C6: with one byte corrupted in each of the two sigblock copies, setup
\* returns Ok(None) if both bytes are bytes of the magic (offsets 4..19 of the
\* sector) and an error in every other case; in all these cases the stream is
\* left different from the reference.
C6_DoubleCorruption ==
    (/\ ret.op = "setup"
     /\ is_some(hist.corrupt[1]) /\ is_some(hist.corrupt[2])) =>
        /\ IF in_magic(unwrap(hist.corrupt[1])) /\ in_magic(unwrap(hist.corrupt[2]))
           THEN ret.res = Ok(None)
           ELSE ~ret.res.ok
        /\ Some(f.bytes) # reference

\* C6, its case: setup has returned an error with the corrupted byte of copy 1
\* in the magic and that of copy 2 outside of it.
C6_Witness ==
    /\ ret.op = "setup" /\ ~ret.res.ok
    /\ is_some(hist.corrupt[1]) /\ is_some(hist.corrupt[2])
    /\ in_magic(unwrap(hist.corrupt[1])) /\ ~in_magic(unwrap(hist.corrupt[2]))

\* C7: when both sigblock copies are valid and one has a strictly smaller
\* initialization_time, whichever of the two it is, setup returns the header
\* with the larger initialization_time and rewrites the older copy: its sector
\* is then equal byte for byte to that of the newer copy.
C7_OlderRewritten ==
    (ret.op = "setup" /\ is_some(hist.planted)) =>
        /\ ret.res = Ok(Some(unwrap(bda).header))
        /\ sigblock_sector(unwrap(hist.planted)) = sigblock_sector(3 - unwrap(hist.planted))
        /\ sigblock_sector(1) = sigblock_to_buf(unwrap(bda).header)
        /\ Some(f.bytes) = reference

\* C7, its case: setup has run with the older sigblock in copy 1, and has
\* written to the stream.
C7_Witness ==
    /\ ret.op = "setup" /\ hist.planted = Some(1)
    /\ \E k \in 1..Len(f.log) : f.log[k][1] = "write_all" /\ f.log[k][4]
    /\ ret.res = Ok(Some(unwrap(bda).header))

-----------------------------------------------------------------------------
(* The codec of the static header: sigblock_to_buf, then sigblock_from_buf *)

InitCodec ==
    /\ f = ZeroStream
    /\ bda = None
    /\ ret = NoCall
    /\ hist = NoHist
    /\ reference = None
    /\ sh \in {Some(h) : h \in Headers}
    /\ sigbuf = None
    /\ decoded = None

NextCodec ==
    \/ Encode
    \/ Decode

SpecCodec == InitCodec /\ [][NextCodec]_vars

\* C8: for every header h with mda_size a multiple of 4 and at least 2032, and
\* flags 0, sigblock_from_buf(sigblock_to_buf(h)) returns Ok(Some(h')) with
\* pool_uuid, dev_uuid, blkdev_size, mda_size, reserved_size, flags and
\* initialization_time of h' those of h.
C8_StaticHeaderRoundTrip ==
    (/\ is_some(decoded)
     /\ unwrap(sh).mda_size % 4 = 0 /\ unwrap(sh).mda_size >= 2032
     /\ unwrap(sh).flags = 0) =>
        /\ unwrap(decoded).ok /\ is_some(unwrap(decoded).val)
        /\ LET h1 == unwrap(sh)
               h2 == unwrap(unwrap(decoded).val)
           IN  /\ h2.pool_uuid = h1.pool_uuid
               /\ h2.dev_uuid = h1.dev_uuid
               /\ h2.blkdev_size = h1.blkdev_size
               /\ h2.mda_size = h1.mda_size
               /\ h2.reserved_size = h1.reserved_size
               /\ h2.flags = h1.flags
               /\ h2.initialization_time = h1.initialization_time

\* C8, its case: a header with an mda_size above the minimum and distinct
\* UUIDs has been encoded and decoded.
C8_Witness ==
    /\ is_some(decoded) /\ unwrap(decoded).ok
    /\ unwrap(sh).mda_size > MIN_MDA_SECTORS
    /\ unwrap(sh).pool_uuid # unwrap(sh).dev_uuid
    /\ unwrap(unwrap(decoded).val) = unwrap(sh)

-----------------------------------------------------------------------------
(* Loss of power during BDA::initialize, on a device that is new or was      *)
(* initialized before; setup and load afterwards                             *)

NextCrash ==
    \/ \E a \in InitArgs : Initialize(a[1], a[2], a[3], a[4], a[5])
    \/ \E a \in InitArgs, point \in CrashPoints, torn \in TornLens :
           CrashInitialize(a[1], a[2], a[3], a[4], a[5], point, torn)
    \/ Setup
    \/ Load

SpecCrash == Init /\ [][NextCrash]_vars

\* The sector of sigblock copy 1 or 2 in bytes
sector_of(bytes, copy) == Window(bytes, sigblock_offset(copy), SECTOR_SIZE)

\* Sigblock copy `copy` of bytes is partially written: it is neither the
\* sector that was there before the interrupted BDA::initialize nor the
\* sigblock that call writes
partially_written(bytes, before, args, copy) ==
    /\ sector_of(bytes, copy) # sector_of(before, copy)
    /\ sector_of(bytes, copy)
           # sigblock_to_buf(StaticHeader_new(args[1], args[2], args[3], args[4], args[5]))

\* The stream calls of log before call k wrote all of [0, 8 * SECTOR_SIZE)
\* and a sync_all followed them
first_copy_synced(log, k) ==
    \E m \in 1..(k - 1) :
        /\ log[m][1] = "sync_all" /\ log[m][4]
        /\ \A o \in {0, SECTOR_SIZE, 2 * SECTOR_SIZE} :
               \E w \in 1..(m - 1) :
                   /\ log[w][1] = "write_all" /\ log[w][4]
                   /\ log[w][2] <= o /\ o < log[w][2] + log[w][3]
        /\ \E w \in 1..(m - 1) :
               /\ log[w][1] = "write_all" /\ log[w][4]
               /\ log[w][2] + log[w][3] = 8 * SECTOR_SIZE

\* C11: in the two-copy write of BDA::initialize every write_all into the
\* second eight sectors comes after the first eight were written and synced,
\* so that after a loss of power at any stream call copy 2 differs from what it
\* was only if copy 1 is the new sigblock, and at most one sigblock copy is
\* partially written; when one copy is partially written and the other is a
\* valid sigblock of header h, setup after the crash returns Ok(Some(h)) and
\* leaves both copies equal to the sigblock of h.
C11_CrashSafety ==
    [][/\ ret'.op = "crash" =>
              /\ \A k \in 1..Len(f'.log) :
                     (f'.log[k][1] = "write_all" /\ f'.log[k][2] >= 8 * SECTOR_SIZE) =>
                         first_copy_synced(f'.log, k)
              /\ sector_of(f'.bytes, 2) # sector_of(f.bytes, 2) =>
                     sector_of(f'.bytes, 1)
                         = sigblock_to_buf(StaticHeader_new(ret'.args[1], ret'.args[2],
                                                            ret'.args[3], ret'.args[4],
                                                            ret'.args[5]))
              /\ ~(/\ partially_written(f'.bytes, f.bytes, ret'.args, 1)
                   /\ partially_written(f'.bytes, f.bytes, ret'.args, 2))
       /\ (ret.op = "crash" /\ ret'.op = "setup") =>
              \A copy \in 1..2 :
                  (/\ partially_written(f.bytes, unwrap(reference), ret.args, copy)
                   /\ sigblock_from_buf(sector_of(f.bytes, 3 - copy)).ok
                   /\ is_some(sigblock_from_buf(sector_of(f.bytes, 3 - copy)).val)) =>
                      /\ ret'.res = sigblock_from_buf(sector_of(f.bytes, 3 - copy))
                      /\ sector_of(f'.bytes, copy) = sector_of(f.bytes, 3 - copy)
                      /\ sector_of(f'.bytes, 3 - copy) = sector_of(f.bytes, 3 - copy)]_vars

\* C11, its case: the power was lost while BDA::initialize wrote copy 2 over an
\* older sigblock, copy 1 already the new one, and setup has rewritten copy 2.
C11_Witness ==
    /\ ret.op = "setup" /\ ret.res.ok /\ is_some(ret.res.val)
    /\ is_some(reference)
    /\ sector_of(unwrap(reference), 2) # Zeros(SECTOR_SIZE)
    /\ sector_of(unwrap(reference), 2) # sector_of(f.bytes, 2)
    /\ \E k \in 1..Len(f.log) :
           f.log[k] = <<"write_all", 9 * SECTOR_SIZE, SECTOR_SIZE, TRUE>>
    /\ sector_of(f.bytes, 1) = sector_of(f.bytes, 2)

\* C17: BDA::load returns Ok(None) exactly when StaticHeader::setup on the
\* same stream returns Ok(None), and the error of setup when setup fails; when
\* setup finds a header, load returns Ok(Some(bda)) with that header if for each
\* slot i in {0, 1} the 32 bytes at the start of region i or of region i + 2
\* are a well-formed region header (the CRC of bytes [4, 32) in [0, 4), both
\* version bytes 1, and seconds 0 or 32 + used within the region), and an error
\* if not: an error on an MDA area that is all zero, and right after
\* BDA::initialize a BDA with last_update_time() None.
C17_Load ==
    [][ret'.op = "load" =>
        LET found == StaticHeader_setup(begin_call(f, {})).res
            region_size_bytes == (unwrap(found.val).mda_size \div 4) * 512
            hdr(region) == Window(f.bytes, 8192 + region * region_size_bytes, 32)
            well_formed(buf) ==
                /\ Slice(buf, 0, 4) = write_le(checksum_castagnoli(Slice(buf, 4, 32)), 4)
                /\ At(buf, 28) = 1 /\ At(buf, 29) = 1
                /\ \/ read_le(Slice(buf, 16, 24)) = 0
                   \/ 32 + read_le(Slice(buf, 8, 16)) <= region_size_bytes
        IN  /\ ret'.res = Ok(None) <=> found = Ok(None)
            /\ ~found.ok => ret'.res = found
            /\ (found.ok /\ is_some(found.val)) =>
                   /\ IF \A i \in 0..1 : well_formed(hdr(i)) \/ well_formed(hdr(i + 2))
                      THEN /\ ret'.res.ok /\ is_some(ret'.res.val)
                           /\ unwrap(ret'.res.val).header = unwrap(found.val)
                      ELSE ~ret'.res.ok
                   /\ (\A o \in DOMAIN f.bytes : o < 8192) => ~ret'.res.ok
                   /\ (ret.op = "initialize" /\ ret.res.ok) =>
                          /\ ret'.res.ok /\ is_some(ret'.res.val)
                          /\ BDA_last_update_time(unwrap(ret'.res.val)) = None]_vars

\* C17, its case: BDA::load has returned an error on a device whose sigblock
\* copies are valid and whose MDA area is all zero: the power was lost in
\* BDA::initialize before MDARegions::initialize wrote a header.
C17_Witness ==
    /\ ret.op = "load" /\ ~ret.res.ok
    /\ is_some(reference)
    /\ sigblock_from_buf(sector_of(f.bytes, 1)).ok
    /\ is_some(sigblock_from_buf(sector_of(f.bytes, 1)).val)
    /\ sector_of(f.bytes, 1) = sector_of(f.bytes, 2)
    /\ \A o \in DOMAIN f.bytes : o < BDA_STATIC_HDR_SIZE

\* C18: from a freshly initialized BDA, the successful save_state calls go to
\* the slots 0, 1, 0, 1, ... in turn (the first to slot 0, each later one to
\* the slot the one before it did not write), and after each of them
\* load_state() returns the payload of that call.
C18_SlotAlternation ==
    [][(ret'.op = "save_state" /\ ret'.res.ok /\ hist'.phase = "saves") =>
           /\ unwrap(hist'.last)[3] = IF is_some(hist.last)
                                      THEN {0, 1} \ unwrap(hist.last)[3]
                                      ELSE {0}
           /\ loaded' = Ok(Some(ret'.args[2]))]_vars

\* C18, its case: the fourth save_state in a row since BDA::initialize has
\* written slot 1: it carries the greatest timestamp, and slot 0 holds the
\* third, which could only be written once both slots were populated.
C18_Witness ==
    /\ ret.op = "save_state" /\ ret.res.ok /\ hist.phase = "saves"
    /\ ret.args[1] = Timestamp(MaxSecs, 999999999)
    /\ unwrap(hist.last)[3] = {1}
    /\ unwrap(unwrap(bda).regions.mdas[0]).last_updated = Timestamp(MaxSecs, 0)
    /\ loaded = Ok(Some(ret.args[2]))

-----------------------------------------------------------------------------
(* The life of a device that held other bytes before: setup, initialize,     *)
(* saves, wipe, identification and load                                      *)

NextDevice ==
    \/ \E a \in InitArgs : Initialize(a[1], a[2], a[3], a[4], a[5])
    \/ \E time \in Times, data \in FaultDatas : SaveState(time, data, {})
    \/ Setup
    \/ Wipe
    \/ DeviceIdentifiers
    \/ Load

SpecDevice == InitDevice /\ [][NextDevice]_vars

\* C12: when BDA::initialize, a one-copy write of the static header (in setup
\* or load), save_state or wipe returns Ok, no write_all follows its last
\* sync_all, and sync_all is the last stream call of initialize, of the
\* one-copy write of setup, of save_state and of wipe; after the last
\* write_all of each physical copy (an eight-sector half of the static header;
\* in save_state an MDA region) there is exactly one sync_all before the next
\* write_all, or before the end of the call.
C12_DurabilityOrdering ==
    LET log == f.log
        writes == {k \in 1..Len(log) : log[k][1] = "write_all"}
        syncs == {k \in 1..Len(log) : log[k][1] = "sync_all"}
        copy(k) ==
            IF log[k][2] < 8 * SECTOR_SIZE THEN 1
            ELSE IF log[k][2] < BDA_STATIC_HDR_SIZE THEN 2
            ELSE IF ret.op = "save_state"
            THEN 3 + ((log[k][2] - BDA_STATIC_HDR_SIZE) \div region_len(unwrap(bda)))
            ELSE 0
        next(k) ==
            IF \E w \in writes : w > k
            THEN CHOOSE w \in writes : w > k /\ \A v \in writes : v > k => w <= v
            ELSE Len(log) + 1
        last_of_copy(k) ==
            /\ copy(k) # 0
            /\ next(k) <= Len(log) => copy(next(k)) # copy(k)
    IN  (/\ ret.op \in {"initialize", "setup", "load", "save_state", "wipe"}
         /\ ret.res.ok
         /\ writes # {}) =>
            /\ \E m \in syncs : \A w \in writes : w < m
            /\ ret.op # "load" => log[Len(log)][1] = "sync_all"
            /\ \A k \in writes :
                   last_of_copy(k) =>
                       Cardinality({m \in syncs : k < m /\ m < next(k)}) = 1

\* C12, its case: a save_state has returned Ok after it wrote the header and
\* the payload of two MDA regions, the second slot to be populated.
C12_Witness ==
    /\ ret.op = "save_state" /\ ret.res.ok
    /\ Cardinality({f.log[k][2] : k \in {j \in 1..Len(f.log) :
                                           f.log[j][1] = "write_all"}}) = 4
    /\ f.log[Len(f.log)][1] = "sync_all"
    /\ \A i \in 0..1 : is_some(unwrap(bda).regions.mdas[i])

-----------------------------------------------------------------------------
(* Damage to one MDA region after a save, then load_state and load *)

NextDamage ==
    \/ \E a \in InitArgs : Initialize(a[1], a[2], a[3], a[4], a[5])
    \/ \E time \in Times, data \in FaultDatas : SaveState(time, data, {})
    \/ \E region \in 0..(NUM_MDA_REGIONS - 1), index \in RegionCorruptions :
           CorruptRegion(region, index)
    \/ LoadState
    \/ Load

SpecDamage == Init /\ [][NextDamage]_vars

\* C13, as claimed: when MDARegions::load finds the header of region i damaged
\* and that of region i + 2 good, or load_state finds the payload of the newer
\* slot damaged in region i and good in region i + 2, the read rewrites the
\* damaged copy: afterwards regions i and i + 2 are identical.
C13_MdaSelfRepair ==
    [][LET b == unwrap(bda)
           hdr(r) == from_buf(Window(f.bytes, region_start(b, r), MDA_REGION_HDR_SIZE),
                              region_len(b))
           payload_good(r, mda) ==
               checksum_castagnoli(Window(f.bytes, region_start(b, r) + MDA_REGION_HDR_SIZE,
                                          mda.used)) = mda.data_crc
           newer_region == newer(b.regions)
       IN  /\ (ret'.op = "load" /\ is_some(bda)) =>
                  \A i \in 0..1 :
                      (~hdr(i).ok /\ hdr(i + 2).ok) =>
                          region_bytes(f'.bytes, b, i) = region_bytes(f'.bytes, b, i + 2)
           /\ (/\ ret'.op = "load_state" /\ is_some(b.regions.mdas[newer_region])
               /\ ~payload_good(newer_region, unwrap(b.regions.mdas[newer_region]))
               /\ payload_good(newer_region + 2, unwrap(b.regions.mdas[newer_region]))) =>
                      region_bytes(f'.bytes, b, newer_region)
                          = region_bytes(f'.bytes, b, newer_region + 2)]_vars

\* C13, amended: the MDA regions are not repaired by a read.  When
\* MDARegions::load finds the header of region i damaged and that of region
\* i + 2 good, slot i of the loaded BDA is what the header of region i + 2
\* decodes to; when load_state finds the payload of the newer slot damaged in
\* region i and good in region i + 2, it returns the payload of region i + 2;
\* both make no write_all and leave every byte of the stream as it was.
C13_MdaFallbackNoRepair ==
    [][LET b == unwrap(bda)
           hdr(r) == from_buf(Window(f.bytes, region_start(b, r), MDA_REGION_HDR_SIZE),
                              region_len(b))
           payload(r, mda) ==
               Window(f.bytes, region_start(b, r) + MDA_REGION_HDR_SIZE, mda.used)
           newer_region == newer(b.regions)
           reads_only == /\ f'.bytes = f.bytes
                         /\ \A k \in 1..Len(f'.log) : f'.log[k][1] # "write_all"
       IN  /\ (ret'.op = "load" /\ is_some(bda)) =>
                  \A i \in 0..1 :
                      (/\ ~hdr(i).ok /\ hdr(i + 2).ok
                       /\ hdr(1 - i).ok \/ hdr(3 - i).ok) =>
                          /\ ret'.res.ok /\ is_some(ret'.res.val)
                          /\ unwrap(bda').regions.mdas[i] = hdr(i + 2).val
                          /\ reads_only
           /\ (ret'.op = "load_state" /\ is_some(b.regions.mdas[newer_region])) =>
                  LET mda == unwrap(b.regions.mdas[newer_region])
                  IN  (/\ checksum_castagnoli(payload(newer_region, mda)) # mda.data_crc
                       /\ checksum_castagnoli(payload(newer_region + 2, mda)) = mda.data_crc) =>
                          /\ ret'.res = Ok(Some(payload(newer_region + 2, mda)))
                          /\ reads_only]_vars

\* C13, its case: load_state has returned the payload it read from the sibling
\* region of the newer slot, whose first region still differs from its sibling.
C13_Witness ==
    /\ ret.op = "load_state" /\ ret.res.ok /\ is_some(ret.res.val)
    /\ \E k \in 1..Len(f.log) :
           /\ f.log[k][1] = "read_exact"
           /\ in_region(unwrap(bda), newer(unwrap(bda).regions) + 2, f.log[k][2], f.log[k][3])
    /\ ~siblings_equal(newer(unwrap(bda).regions))

-----------------------------------------------------------------------------
(* Saves of payloads about as long as a region *)

NextSize ==
    \/ \E a \in InitArgs : Initialize(a[1], a[2], a[3], a[4], a[5])
    \/ \E time \in {t \in Times : t.nsecs = 0}, data \in LongDatas \cup FaultDatas :
           SaveState(time, data, {})
    \/ LoadState

SpecSize == Init /\ [][NextSize]_vars

\* C14: save_state with a payload d such that 32 + len(d) exceeds the bytes of
\* a region, (mda_size / 4) * 512, returns an Invalid error, makes no stream
\* call, and leaves the stream and the in-memory BDA as they were; with
\* 32 + len(d) at most the bytes of a region and a timestamp newer than
\* last_update_time() it is not rejected: it returns Ok.
C14_SizeLimit ==
    [][ret'.op = "save_state" =>
        LET region_size_bytes == (unwrap(bda).header.mda_size \div 4) * 512
            d == ret'.args[2]
            newer_time == \/ ~is_some(BDA_last_update_time(unwrap(bda)))
                          \/ time_lt(unwrap(BDA_last_update_time(unwrap(bda))), ret'.args[1])
        IN  /\ 32 + BLen(d) > region_size_bytes =>
                   /\ ret'.res = Err("Invalid")
                   /\ f'.log = <<>>
                   /\ f'.bytes = f.bytes
                   /\ bda' = bda
            /\ (32 + BLen(d) <= region_size_bytes /\ newer_time) => ret'.res.ok]_vars

\* C14, its case: a payload that fills the region to its last byte has been
\* saved to a BDA that holds an earlier save, and load_state returns it.
C14_Witness ==
    /\ ret.op = "save_state" /\ ret.res.ok
    /\ 32 + BLen(ret.args[2]) = region_len(unwrap(bda))
    /\ \A i \in 0..1 : is_some(unwrap(bda).regions.mdas[i])
    /\ loaded = Ok(Some(ret.args[2]))

\* C20: save_state with a timestamp newer than last_update_time() succeeds for
\* every payload of at most max_data_size() sectors, in bytes, and fails for
\* every longer one.
C20_MaxDataSize ==
    [][(/\ ret'.op = "save_state"
        /\ \/ ~is_some(BDA_last_update_time(unwrap(bda)))
           \/ time_lt(unwrap(BDA_last_update_time(unwrap(bda))), ret'.args[1])) =>
           (ret'.res.ok <=>
                BLen(ret'.args[2]) <= sectors_bytes(BDA_max_data_size(unwrap(bda))))]_vars

\* C15: after BDA::wipe returns Ok, on a device with any earlier contents and
\* after any initialize and saves, bytes [0, 8192) of the stream are all zero,
\* and device_identifiers and BDA::load on that stream both return Ok(None).
C15_Wipe ==
    (ret.op = "wipe" /\ ret.res.ok) =>
        /\ Window(f.bytes, 0, 8192) = Zeros(8192)
        /\ device_identifiers(begin_call(f, {})).res = Ok(None)
        /\ BDA_load(begin_call(f, {})).res = Ok(None)

\* C15, its case: a device that held a BDA with a saved payload has been
\* wiped; the MDA regions still hold their bytes.
C15_Witness ==
    /\ ret.op = "wipe" /\ ret.res.ok
    /\ is_some(bda) /\ is_some(hist.last)
    /\ \E o \in DOMAIN f.bytes : o >= BDA_STATIC_HDR_SIZE
    /\ BDA_load(begin_call(f, {})).res = Ok(None)

\* C16: after BDA::initialize returns Ok, whatever the stream held before, the
\* sectors at offsets 512 and 4608 are identical, carry the magic and a valid
\* CRC and decode to the header of the arguments; every other byte of
\* [0, 8192) is zero; the header of each of the four MDA regions decodes as
\* empty; the BDA returned has that header, last_update_time() None and
\* load_state() Ok(None).
C16_InitializeLayout ==
    (ret.op = "initialize" /\ ret.res.ok) =>
        LET header == StaticHeader_new(ret.args[1], ret.args[2], ret.args[3], ret.args[4],
                                       ret.args[5])
            sigblock == Window(f.bytes, 512, 512)
            region_size_bytes == (ret.args[3] \div 4) * 512
        IN  /\ Window(f.bytes, 4608, 512) = sigblock
            /\ Slice(sigblock, 4, 20) = STRAT_MAGIC
            /\ Slice(sigblock, 0, 4)
                   = write_le(checksum_castagnoli(Slice(sigblock, 4, 512)), 4)
            /\ sigblock_from_buf(sigblock) = Ok(Some(header))
            /\ \A o \in DOMAIN f.bytes :
                   o < 8192 => (o >= 512 /\ o < 1024) \/ (o >= 4608 /\ o < 5120)
            /\ \A region \in 0..3 :
                   /\ from_buf(Window(f.bytes, 8192 + region * region_size_bytes, 32),
                               region_size_bytes) = Ok(None)
                   /\ read_le(Window(f.bytes, 8192 + region * region_size_bytes + 16, 8)) = 0
            /\ ret.res.val = unwrap(bda)
            /\ unwrap(bda).header = header
            /\ updated = None
            /\ loaded = Ok(None)

\* C16, its case: BDA::initialize has returned Ok on a device that held other
\* bytes in the static header area and in the MDA area; bytes of those beyond
\* the region headers are still there.
C16_Witness ==
    /\ ret.op = "initialize" /\ ret.res.ok
    /\ \E o \in DOMAIN f.bytes : o >= BDA_STATIC_HDR_SIZE /\ f.bytes[o] = 255
    /\ \A o \in {0, 511, 1024, 8191} : o \notin DOMAIN f.bytes
    /\ loaded = Ok(None)

-----------------------------------------------------------------------------
(* older(), newer(), last_update_time() and save_state on the MDA regions
   loaded from a device whose slots were written elsewhere: each slot empty
   or holding one of OrderTimes *)

\* The timestamps a populated slot of such a device holds
OrderTimes == {Timestamp(secs, nsecs) : secs \in 1..2, nsecs \in Nsecs}

\* The device after BDA::initialize with the arguments a and, for each slot
\* whose entry in times is Some(t), a write of both its regions with time t
OrderDevice(a, times) ==
    LET region_size == sectors_bytes(a[3] \div NUM_MDA_REGIONS)
        data(slot) == IF slot = 0 THEN B(<<7>>) ELSE B(<<8, 9>>)
        hdr_buf(slot) == to_buf([last_updated |-> unwrap(times[slot + 1]),
                                 used |-> BLen(data(slot)),
                                 data_crc |-> checksum_castagnoli(data(slot))])
        stored(s, slot, buf) ==
            save_region(save_region(s, slot, BDA_STATIC_HDR_SIZE, region_size, buf,
                                    data(slot)),
                        slot + 2, BDA_STATIC_HDR_SIZE, region_size, buf, data(slot))
        put(s, slot) == IF is_some(times[slot + 1]) THEN stored(s, slot, hdr_buf(slot))
                        ELSE s
        initialized(got) == put(put(got.s, 0), 1)
    IN  [ZeroStream EXCEPT
             !.bytes = initialized(BDA_initialize(begin_call(ZeroStream, {}), a[1], a[2],
                                                  a[3], a[4], a[5])).bytes]

InitOrder ==
    /\ f \in {OrderDevice(a, <<t0, t1>>) :
                  a \in InitArgs,
                  t0 \in {None} \cup {Some(t) : t \in OrderTimes},
                  t1 \in {None} \cup {Some(t) : t \in OrderTimes}}
    /\ bda = None
    /\ ret = NoCall
    /\ hist = NoHist
    /\ reference = None
    /\ CodecIdle

\* self.older() on the regions of the BDA
Older ==
    /\ is_some(bda)
    /\ ret' = [op |-> "older", args |-> <<>>, res |-> Ok(older(unwrap(bda).regions))]
    /\ hist' = hist_other
    /\ UNCHANGED <<f, bda, reference, sh, sigbuf, decoded>>

\* self.newer() on the regions of the BDA
Newer ==
    /\ is_some(bda)
    /\ ret' = [op |-> "newer", args |-> <<>>, res |-> Ok(newer(unwrap(bda).regions))]
    /\ hist' = hist_other
    /\ UNCHANGED <<f, bda, reference, sh, sigbuf, decoded>>

\* bda.last_update_time()
LastUpdateTime ==
    /\ is_some(bda)
    /\ ret' = [op |-> "last_update_time", args |-> <<>>,
               res |-> Ok(BDA_last_update_time(unwrap(bda)))]
    /\ hist' = hist_other
    /\ UNCHANGED <<f, bda, reference, sh, sigbuf, decoded>>

NextOrder ==
    \/ Load
    \/ Older
    \/ Newer
    \/ LastUpdateTime
    \/ LoadState
    \/ \E time \in Times, data \in FaultDatas, fail \in SaveFails :
           SaveState(time, data, fail)

SpecOrder == InitOrder /\ [][NextOrder]_vars

\* C19: when both slots are populated and their last_updated timestamps are
\* equal, newer() returns 1 and older() returns 0.
C19_TieBreak ==
    (/\ is_some(bda)
     /\ is_some(unwrap(bda).regions.mdas[0]) /\ is_some(unwrap(bda).regions.mdas[1])
     /\ unwrap(unwrap(bda).regions.mdas[0]).last_updated
            = unwrap(unwrap(bda).regions.mdas[1]).last_updated) =>
        /\ ret.op = "newer" => ret.res = Ok(1)
        /\ ret.op = "older" => ret.res = Ok(0)

-----------------------------------------------------------------------------
(* The codec of the region header: MDAHeader::to_buf, then                   *)
(* MDAHeader::from_buf on the buffer as it is or with one byte changed       *)

\* The region sizes from_buf is given: that of test_from_buf_crc_error and
\* that of the least MDA
MdaRegionSizes == {MDA_REGION_HDR_SIZE + 3, sectors_bytes(MIN_MDA_SECTORS \div NUM_MDA_REGIONS)}

\* The headers of the codec test: seconds 0 and more, used up to and beyond
\* what each region size leaves after the header
MdaHeaders ==
    {[last_updated |-> Timestamp(secs, nsecs), used |-> used, data_crc |-> data_crc] :
        secs \in 0..2, nsecs \in Nsecs,
        used \in {0} \cup {r - MDA_REGION_HDR_SIZE + d : r \in MdaRegionSizes, d \in 0..1},
        data_crc \in {0, checksum_castagnoli(B(<<8, 9>>))}}

\* The bytes of a region header that are changed: in the header CRC, data_crc,
\* used, the seconds, the nanoseconds, each version byte and the padding
MdaOffsets == {0, 4, 8, 16, 24, 28, 29, 31}

InitMda ==
    /\ f = ZeroStream
    /\ bda = None
    /\ ret = NoCall
    /\ hist = NoHist
    /\ reference = None
    /\ sh \in {Some(h) : h \in MdaHeaders}
    /\ sigbuf = None
    /\ decoded = None

\* header.to_buf()
MdaEncode ==
    /\ is_some(sh) /\ ~is_some(sigbuf)
    /\ sigbuf' = Some(to_buf(unwrap(sh)))
    /\ ret' = [op |-> "to_buf", args |-> <<>>, res |-> Ok(<<>>)]
    /\ UNCHANGED <<f, bda, hist, reference, sh, decoded>>

\* The buffer as a device may hold it: the byte at off is another one, and
\* with reseal the header CRC is the CRC of the bytes that follow it
MdaAlter(off, reseal) ==
    /\ is_some(sigbuf) /\ ~is_some(decoded)
    /\ hist.corrupt = <<None, None>>
    /\ LET buf == unwrap(sigbuf)
           changed == Put(buf, off, B(<<(At(buf, off) + 1) % 256>>))
           crc == checksum_castagnoli(Slice(changed, 4, MDA_REGION_HDR_SIZE))
       IN  sigbuf' = Some(IF reseal THEN Put(changed, 0, write_le(crc, 4)) ELSE changed)
    /\ ret' = [op |-> "alter", args |-> <<off, reseal>>, res |-> Ok(<<>>)]
    /\ hist' = [hist EXCEPT !.corrupt[1] = Some(off)]
    /\ UNCHANGED <<f, bda, reference, sh, decoded>>

\* MDAHeader::from_buf(&buf, region_size)
MdaDecode(region_size) ==
    /\ is_some(sigbuf) /\ ~is_some(decoded)
    /\ decoded' = Some(from_buf(unwrap(sigbuf), region_size))
    /\ ret' = [op |-> "from_buf", args |-> <<region_size>>,
               res |-> from_buf(unwrap(sigbuf), region_size)]
    /\ UNCHANGED <<f, bda, hist, reference, sh, sigbuf>>

NextMda ==
    \/ MdaEncode
    \/ \E off \in MdaOffsets, reseal \in BOOLEAN : MdaAlter(off, reseal)
    \/ \E region_size \in MdaRegionSizes : MdaDecode(region_size)

SpecMda == InitMda /\ [][NextMda]_vars

\* C21 as stated: a region header whose seconds field is 0 decodes as
\* Ok(None) whatever its other fields are, the header CRC and the version
\* bytes among them.
C21_EmptySlotAnyFields ==
    (ret.op = "from_buf" /\ read_le(Slice(unwrap(sigbuf), 16, 24)) = 0) =>
        ret.res = Ok(None)

\* C21, amended: a region header whose seconds field is 0 decodes as Ok(None)
\* whatever data_crc, used and the nanoseconds are, provided that its stored
\* CRC is that of bytes [4, 32) and that both version bytes are 1; with a CRC
\* that does not match or another version byte it is an Invalid error.
C21_EmptySlotValidHeader ==
    (ret.op = "from_buf" /\ read_le(Slice(unwrap(sigbuf), 16, 24)) = 0) =>
        LET buf == unwrap(sigbuf)
            crc == checksum_castagnoli(Slice(buf, 4, 32))
        IN  IF /\ Slice(buf, 0, 4) = write_le(crc, 4)
               /\ At(buf, 28) = 1 /\ At(buf, 29) = 1
            THEN ret.res = Ok(None)
            ELSE ret.res = Err("Invalid")

\* C21, its case: a header with seconds 0, a used beyond the region, and
\* data_crc and nanoseconds that are not 0 has decoded as Ok(None).
C21_Witness ==
    /\ ret.op = "from_buf" /\ ret.res = Ok(None)
    /\ read_le(Slice(unwrap(sigbuf), 16, 24)) = 0
    /\ MDA_REGION_HDR_SIZE + read_le(Slice(unwrap(sigbuf), 8, 16)) > ret.args[1]
    /\ read_le(Slice(unwrap(sigbuf), 4, 8)) # 0
    /\ read_le(Slice(unwrap(sigbuf), 24, 28)) # 0

\* C22: for every MDAHeader h with seconds >= 1 and 32 + used within the
\* region size, from_buf(to_buf(h), region_size) is Ok(Some(h')) with
\* last_updated, used and data_crc of h' those of h; a buffer whose stored CRC
\* is not that of bytes [4, 32) is an error, and so is the buffer of a header
\* with seconds >= 1 whose used is beyond region_size - 32.
C22_MdaHeaderRoundTrip ==
    ret.op = "from_buf" =>
        LET h == unwrap(sh)
            buf == unwrap(sigbuf)
            region_size == ret.args[1]
        IN  /\ (/\ hist.corrupt = <<None, None>>
                /\ h.last_updated.secs >= 1
                /\ MDA_REGION_HDR_SIZE + h.used <= region_size) =>
                   /\ ret.res.ok /\ is_some(ret.res.val)
                   /\ unwrap(ret.res.val).last_updated = h.last_updated
                   /\ unwrap(ret.res.val).used = h.used
                   /\ unwrap(ret.res.val).data_crc = h.data_crc
            /\ Slice(buf, 0, 4) # write_le(checksum_castagnoli(Slice(buf, 4, 32)), 4) =>
                   ~ret.res.ok
            /\ (/\ hist.corrupt = <<None, None>>
                /\ h.last_updated.secs >= 1
                /\ h.used > region_size - MDA_REGION_HDR_SIZE) => ~ret.res.ok

\* C22, its case: a header with seconds 2, the greatest nanoseconds, a used
\* that fills the region to its last byte and a data_crc has come back from
\* its buffer.
C22_Witness ==
    /\ ret.op = "from_buf" /\ ret.res = Ok(sh)
    /\ hist.corrupt = <<None, None>>
    /\ unwrap(sh).last_updated = Timestamp(2, 999999999)
    /\ MDA_REGION_HDR_SIZE + unwrap(sh).used = ret.args[1]
    /\ unwrap(sh).data_crc # 0

-----------------------------------------------------------------------------
(* Two valid sigblock copies that differ: after BDA::initialize one copy is  *)
(* replaced by the sigblock of another header, then setup                    *)

\* By how much the initialization_time of the other header differs
TimeDeltas == {-1, 0, 1}

\* After BDA::initialize, the sector of one copy is replaced by the sigblock
\* of the header with initialization_time moved by delta and with the given
\* pool_uuid and blkdev_size; reference is the stream that setup then finds
PlantOther(copy, delta, pool_uuid, blkdev_size) ==
    /\ is_some(bda)
    /\ ret.op = "initialize" /\ ret.res.ok
    /\ LET other == [unwrap(bda).header EXCEPT !.initialization_time = @ + delta,
                                               !.pool_uuid = pool_uuid,
                                               !.blkdev_size = blkdev_size]
           s == begin_call(f, {})
       IN  /\ f' = end_call(write_all(seek(s, sigblock_offset(copy)),
                                      sigblock_to_buf(other)))
           /\ ret' = [op |-> "plant_other", args |-> <<copy, other>>, res |-> Ok(<<>>)]
    /\ hist' = [hist EXCEPT !.phase = "other", !.planted = Some(copy)]
    /\ reference' = Some(f'.bytes)
    /\ UNCHANGED <<bda, sh, sigbuf, decoded>>

NextConflict ==
    \/ \E a \in InitArgs : Initialize(a[1], a[2], a[3], a[4], a[5])
    \/ \E copy \in 1..2, delta \in TimeDeltas, pool_uuid \in {Uuid1, Uuid2},
          blkdev_size \in {70000, 4194304} :
           PlantOther(copy, delta, pool_uuid, blkdev_size)
    \/ Setup
    \/ DeviceIdentifiers

SpecConflict == Init /\ [][NextConflict]_vars

\* C23: when both sigblock copies are valid and their headers differ, setup
\* returns the header of copy 1 and rewrites copy 2 if and only if the
\* initialization_time of copy 1 is strictly greater; otherwise (copy 2 is
\* newer, or the times are equal and another field differs) it returns the
\* header of copy 2 and rewrites copy 1 from it.  The copy that is not
\* rewritten keeps its bytes; with equal headers nothing is written.
C23_NewerCopyWins ==
    [][(ret.op = "plant_other" /\ ret'.op = "setup") =>
        LET planted == ret.args[1]
            a == IF planted = 1 THEN ret.args[2] ELSE unwrap(bda).header
            b == IF planted = 2 THEN ret.args[2] ELSE unwrap(bda).header
            writes == {f'.log[k][2] : k \in {j \in 1..Len(f'.log) : f'.log[j][1] = "write_all"}}
        IN  IF a = b THEN ret'.res = Ok(Some(a)) /\ f'.bytes = f.bytes /\ writes = {}
            ELSE IF a.initialization_time > b.initialization_time
            THEN /\ ret'.res = Ok(Some(a))
                 /\ sector_of(f'.bytes, 2) = sector_of(f.bytes, 1)
                 /\ sector_of(f'.bytes, 1) = sector_of(f.bytes, 1)
                 /\ writes # {} /\ \A o \in writes : o >= 8 * SECTOR_SIZE
            ELSE /\ ret'.res = Ok(Some(b))
                 /\ sector_of(f'.bytes, 1) = sector_of(f.bytes, 2)
                 /\ sector_of(f'.bytes, 2) = sector_of(f.bytes, 2)
                 /\ writes # {} /\ \A o \in writes : o < 8 * SECTOR_SIZE]_vars

\* C23, its case: copy 1 held a header with the initialization_time of the
\* header of copy 2 and another pool_uuid; setup has returned the header of
\* copy 2 and has rewritten copy 1.
C23_Witness ==
    /\ ret.op = "setup" /\ hist.planted = Some(1)
    /\ ret.res = Ok(Some(unwrap(bda).header))
    /\ LET found == unwrap(sigblock_from_buf(sector_of(unwrap(reference), 1)).val)
       IN  /\ found.initialization_time = unwrap(bda).header.initialization_time
           /\ found.pool_uuid # unwrap(bda).header.pool_uuid
    /\ \E k \in 1..Len(f.log) : f.log[k][1] = "write_all" /\ f.log[k][4]
    /\ sector_of(f.bytes, 1) = sector_of(f.bytes, 2)
    /\ sector_of(f.bytes, 1) = sigblock_to_buf(unwrap(bda).header)

\* C24: setup writes to the stream only when exactly one sigblock copy
\* validates (decodes to Ok(Some)) or both validate and their headers differ,
\* and then it changes the stream; in every other case (equal headers, no
\* magic in either copy, no magic in one and the other corrupt, both corrupt)
\* it makes no write_all and leaves every byte of the stream as it was.
C24_SetupFrame ==
    [][ret'.op = "setup" =>
        LET loc_1 == sigblock_from_buf(sector_of(f.bytes, 1))
            loc_2 == sigblock_from_buf(sector_of(f.bytes, 2))
            valid(loc) == loc.ok /\ is_some(loc.val)
            repairs == \/ valid(loc_1) # valid(loc_2)
                       \/ valid(loc_1) /\ valid(loc_2) /\ loc_1.val # loc_2.val
            wrote == \E k \in 1..Len(f'.log) : f'.log[k][1] = "write_all"
        IN  /\ wrote <=> repairs
            /\ repairs => f'.bytes # f.bytes
            /\ ~repairs => f'.bytes = f.bytes]_vars

\* C24, its case: with the magic of copy 1 corrupted and a byte outside the
\* magic of copy 2 corrupted, setup has returned an error and has made no
\* write_all: the stream is not the reference.
C24_Witness ==
    /\ ret.op = "setup" /\ ~ret.res.ok
    /\ is_some(hist.corrupt[1]) /\ in_magic(unwrap(hist.corrupt[1]))
    /\ is_some(hist.corrupt[2]) /\ ~in_magic(unwrap(hist.corrupt[2]))
    /\ \A k \in 1..Len(f.log) : f.log[k][1] # "write_all"
    /\ Some(f.bytes) # reference

-----------------------------------------------------------------------------
(* setup on a device of which a sigblock sector cannot be read               *)

\* Which of the stream calls of BDA::read fail: the seek or the read_exact of
\* either sector, one of them or two
ReadFails == {fail \in SUBSET (1..4) : fail # {} /\ Cardinality(fail) <= 2}

\* How many bytes of the sector a failing read_exact delivers: none, the CRC
\* and the magic, or more
PartialLens == {0, 20, 100}

\* StaticHeader::setup(&mut f), the stream calls in fail failing
SetupFault(fail, partial) ==
    /\ LET returns(got) ==
               /\ f' = end_call(got.s)
               /\ ret' = [op |-> "setup", args |-> <<fail, partial>>, res |-> got.res]
       IN  returns(StaticHeader_setup([begin_call(f, fail) EXCEPT !.partial = partial]))
    /\ hist' = hist_other
    /\ UNCHANGED <<bda, reference, sh, sigbuf, decoded>>

NextReadFault ==
    \/ \E a \in InitArgs : Initialize(a[1], a[2], a[3], a[4], a[5])
    \/ \E copy \in 1..2, index \in SecondCorruptions : CorruptByte(copy, index)
    \/ \E fail \in ReadFails, partial \in PartialLens : SetupFault(fail, partial)
    \/ Setup

SpecReadFault == Init /\ [][NextReadFault]_vars

\* C25: when the read of exactly one sigblock sector fails, setup goes on with
\* the buffer of that sector all zero, that is without magic: with the other
\* copy valid it returns Ok(Some(h)) and rewrites the unreadable copy, with the
\* other copy without magic it returns Ok(None), with the other copy corrupt
\* the error of that copy; when both reads fail it returns an I/O error.
\* (Failures of the write of the repair are left aside.)
C25_SingleReadFailure ==
    [][(ret'.op = "setup" /\ ret'.args # <<>>) =>
        LET log == f'.log
            failures == {k \in 1..Len(log) : ~log[k][4]}
            failed(copy) == \E k \in failures : log[k][2] = sigblock_offset(copy)
            repair_failed == \E k \in failures :
                                 log[k][2] \notin {sigblock_offset(1), sigblock_offset(2)}
            one_failed(copy) ==
                LET other == sigblock_from_buf(sector_of(f.bytes, 3 - copy))
                IN  IF other.ok /\ is_some(other.val)
                    THEN /\ ret'.res = other
                         /\ sector_of(f'.bytes, copy) = sector_of(f.bytes, 3 - copy)
                    ELSE ret'.res = other /\ f'.bytes = f.bytes
        IN  /\ (failed(1) /\ failed(2)) => ret'.res = Err("Io") /\ f'.bytes = f.bytes
            /\ \A copy \in 1..2 :
                   (failed(copy) /\ ~failed(3 - copy) /\ ~repair_failed) =>
                       one_failed(copy)]_vars

\* What C25 keeps of its claim when a failing read_exact may have delivered a
\* part of the sector: both reads failing is an I/O error, and one read
\* failing with the other copy valid gives that copy's header and the
\* rewrite of the unreadable copy.
ReadFailureOtherValid ==
    [][(ret'.op = "setup" /\ ret'.args # <<>>) =>
        LET log == f'.log
            failures == {k \in 1..Len(log) : ~log[k][4]}
            failed(copy) == \E k \in failures : log[k][2] = sigblock_offset(copy)
            repair_failed == \E k \in failures :
                                 log[k][2] \notin {sigblock_offset(1), sigblock_offset(2)}
            other(copy) == sigblock_from_buf(sector_of(f.bytes, 3 - copy))
        IN  /\ (failed(1) /\ failed(2)) => ret'.res = Err("Io") /\ f'.bytes = f.bytes
            /\ \A copy \in 1..2 :
                   (/\ failed(copy) /\ ~failed(3 - copy) /\ ~repair_failed
                    /\ other(copy).ok /\ is_some(other(copy).val)) =>
                       /\ ret'.res = other(copy)
                       /\ sector_of(f'.bytes, copy) = sector_of(f.bytes, 3 - copy)
            /\ \A copy \in 1..2 :
                   (failed(copy) /\ ~failed(3 - copy) /\ ret'.args[2] = 0 /\ ~repair_failed
                    /\ ~(other(copy).ok /\ is_some(other(copy).val))) =>
                       ret'.res = other(copy) /\ f'.bytes = f.bytes]_vars

-----------------------------------------------------------------------------
(* BDA::load on a device whose four region headers are each empty, good or   *)
(* bad in one of three ways, with stream calls of MDARegions::load failing   *)

\* What the header of a region holds: the header of MDARegions::initialize, a
\* header with a timestamp, one with a CRC that does not match, one with a
\* matching CRC and an unknown version, one with a matching CRC and a used
\* beyond the region
HeaderKinds == {"empty", "good", "crc", "version", "used"}

\* The 32 bytes of a region header of a kind, for a region of region_size bytes
header_of_kind(kind, region_size) ==
    LET good == [last_updated |-> Timestamp(1, 0), used |-> 2,
                 data_crc |-> checksum_castagnoli(B(<<8, 9>>))]
        resealed(buf) ==
            Put(buf, 0, write_le(checksum_castagnoli(Slice(buf, 4, MDA_REGION_HDR_SIZE)), 4))
    IN  CASE kind = "empty" -> to_buf(MDAHeader_default)
          [] kind = "good" -> to_buf(good)
          [] kind = "crc" -> Put(to_buf(good), 0, B(<<255 - At(to_buf(good), 0)>>))
          [] kind = "version" -> resealed(Put(to_buf(good), 28, B(<<2>>)))
          [] kind = "used" ->
                 to_buf([good EXCEPT !.used = region_size - MDA_REGION_HDR_SIZE + 1])

\* The device after BDA::initialize with the first arguments of the tests,
\* the header of region r then replaced by one of kinds[r + 1]
LoadDevice(kinds) ==
    LET region_size == sectors_bytes(MIN_MDA_SECTORS \div NUM_MDA_REGIONS)
        put(nz, r) == Overlay(nz, mda_offset(BDA_STATIC_HDR_SIZE, r, region_size),
                              header_of_kind(kinds[r + 1], region_size))
        initialized(got) == put(put(put(put(got.s.bytes, 0), 1), 2), 3)
    IN  [ZeroStream EXCEPT
             !.bytes = initialized(BDA_initialize(begin_call(ZeroStream, {}), Uuid1, Uuid3,
                                                  MIN_MDA_SECTORS, 70000, 1600000000))]

InitLoad ==
    /\ f \in {LoadDevice(<<k0, k1, k2, k3>>) :
                  k0 \in HeaderKinds, k1 \in HeaderKinds, k2 \in HeaderKinds,
                  k3 \in HeaderKinds}
    /\ bda = None
    /\ ret = NoCall
    /\ hist = NoHist
    /\ reference = None
    /\ CodecIdle

\* Which stream calls of BDA::load fail: none, one of the first six of
\* MDARegions::load (calls 1..4 are those of BDA::read), or two that make both
\* regions of slot 0 fail
LoadFails == {{}} \cup {{k} : k \in 5..10} \cup {{5, 6}, {6, 8}}

\* BDA::load(&mut f), the stream calls in fail failing
LoadFault(fail) ==
    /\ LET returns(got) ==
               /\ f' = end_call(got.s)
               /\ bda' = IF got.res.ok THEN got.res.val ELSE None
               /\ ret' = [op |-> "load", args |-> <<fail>>, res |-> got.res]
       IN  returns(BDA_load(begin_call(f, fail)))
    /\ hist' = hist_other
    /\ UNCHANGED <<reference, sh, sigbuf, decoded>>

NextLoad ==
    \/ \E fail \in LoadFails : LoadFault(fail)
    \/ LoadState

SpecLoad == InitLoad /\ [][NextLoad]_vars

\* C26: in MDARegions::load, for each slot i in {0, 1}, the header of region
\* i + 2 is read exactly when reading or decoding the header of region i gave
\* an error (an I/O error of the seek or the read, a CRC that does not match,
\* an unknown version, a used beyond the region), and is then the one that is
\* used; a region i whose header decodes as empty is taken as it is.  The load
\* fails exactly when, for some slot, region i and region i + 2 both gave an
\* error.
C26_HeaderFallback ==
    [][ret'.op = "load" =>
        LET log == f'.log
            region_size == sectors_bytes(MIN_MDA_SECTORS \div NUM_MDA_REGIONS)
            offset(r) == BDA_STATIC_HDR_SIZE + r * region_size
            hdr(r) == Window(f.bytes, offset(r), 32)
            consulted(r) == \E k \in 1..Len(log) : log[k][2] = offset(r)
            io_error(r) == \E k \in 1..Len(log) : log[k][2] = offset(r) /\ ~log[k][4]
            well_formed(buf) ==
                /\ Slice(buf, 0, 4) = write_le(checksum_castagnoli(Slice(buf, 4, 32)), 4)
                /\ At(buf, 28) = 1 /\ At(buf, 29) = 1
                /\ \/ read_le(Slice(buf, 16, 24)) = 0
                   \/ 32 + read_le(Slice(buf, 8, 16)) <= region_size
            error(r) == io_error(r) \/ ~well_formed(hdr(r))
            header(buf) ==
                IF read_le(Slice(buf, 16, 24)) = 0 THEN None
                ELSE Some([used |-> read_le(Slice(buf, 8, 16)),
                           last_updated |-> Timestamp(read_le(Slice(buf, 16, 24)),
                                                      read_le(Slice(buf, 24, 28))),
                           data_crc |-> read_le(Slice(buf, 4, 8))])
            taken(i) == header(hdr(IF error(i) THEN i + 2 ELSE i))
        IN  /\ consulted(0)
            /\ consulted(2) <=> error(0)
            /\ IF error(0) /\ error(2)
               THEN ~ret'.res.ok /\ ~consulted(1) /\ ~consulted(3)
               ELSE /\ consulted(1)
                    /\ consulted(3) <=> error(1)
                    /\ IF error(1) /\ error(3) THEN ~ret'.res.ok
                       ELSE /\ ret'.res.ok /\ is_some(ret'.res.val)
                            /\ \A i \in 0..1 :
                                   unwrap(ret'.res.val).regions.mdas[i] = taken(i)]_vars

\* C26, its case: the read of the header of region 0 has failed with an I/O
\* error and region 2 was read in its place; region 1, whose header has a
\* matching CRC and an unknown version, was replaced by region 3; the load
\* has succeeded with slot 0 populated and slot 1 empty.
C26_Witness ==
    /\ ret.op = "load" /\ ret.res.ok /\ is_some(ret.res.val)
    /\ \E k \in 1..Len(f.log) :
           f.log[k] = <<"read_exact", BDA_STATIC_HDR_SIZE, MDA_REGION_HDR_SIZE, FALSE>>
    /\ LET region_size == sectors_bytes(MIN_MDA_SECTORS \div NUM_MDA_REGIONS)
           hdr(r) == Window(f.bytes, BDA_STATIC_HDR_SIZE + r * region_size, 32)
       IN  /\ At(hdr(1), 28) = 2
           /\ Slice(hdr(1), 0, 4) = write_le(checksum_castagnoli(Slice(hdr(1), 4, 32)), 4)
           /\ \E k \in 1..Len(f.log) :
                  f.log[k][2] = BDA_STATIC_HDR_SIZE + 3 * region_size
    /\ is_some(unwrap(ret.res.val).regions.mdas[0])
    /\ ~is_some(unwrap(ret.res.val).regions.mdas[1])

-----------------------------------------------------------------------------
(* load_state on regions of which a byte was corrupted, with stream calls    *)
(* of load_state failing                                                     *)

\* Where a region is corrupted: in its header, in the first and in the second
\* byte of its payload
PayloadCorruptions == {0, MDA_REGION_HDR_SIZE, MDA_REGION_HDR_SIZE + 1}

\* Which stream calls of load_state fail: at most two of its at most four
\* seek and read_exact calls
LoadStateFails == {fail \in SUBSET (1..4) : Cardinality(fail) <= 2}

\* bda.load_state(&mut f), the stream calls in fail failing
LoadStateFault(fail) ==
    /\ is_some(bda)
    /\ LET returns(got) ==
               /\ f' = end_call(got.s)
               /\ ret' = [op |-> "load_state", args |-> <<fail>>, res |-> got.res]
       IN  returns(BDA_load_state(unwrap(bda), begin_call(f, fail)))
    /\ hist' = hist_other
    /\ UNCHANGED <<bda, reference, sh, sigbuf, decoded>>

NextPayload ==
    \/ \E a \in InitArgs : Initialize(a[1], a[2], a[3], a[4], a[5])
    \/ \E time \in Times, data \in FaultDatas : SaveState(time, data, {})
    \/ \E region \in 0..3, index \in PayloadCorruptions : CorruptRegion(region, index)
    \/ \E fail \in LoadStateFails : LoadStateFault(fail)

SpecPayload == Init /\ [][NextPayload]_vars

\* C27: load_state returns Ok(None) without a stream call when the newer slot
\* is empty.  Otherwise it seeks past the header of region newer and reads
\* `used` bytes; region newer + 2 is read exactly when that seek or read
\* failed or the CRC of the bytes read is not the data_crc of the in-memory
\* header, and is checked against the same header; the result is the payload
\* of the region that passed, an error exactly when both failed, and every
\* payload returned has the data_crc of the in-memory header.  No byte of the
\* stream changes.
C27_PayloadFallback ==
    [][ret'.op = "load_state" =>
        LET log == f'.log
            regions == unwrap(bda).regions
            region_size == sectors_bytes(regions.region_size)
            mda == unwrap(regions.mdas[newer(regions)])
            offset(r) == BDA_STATIC_HDR_SIZE + r * region_size + MDA_REGION_HDR_SIZE
            visited(r) == \E k \in 1..Len(log) : log[k][2] = offset(r)
            io_error(r) == \E k \in 1..Len(log) : log[k][2] = offset(r) /\ ~log[k][4]
            payload(r) == Window(f.bytes, offset(r), mda.used)
            failed(r) == io_error(r) \/ checksum_castagnoli(payload(r)) # mda.data_crc
            first == newer(regions)
        IN  /\ f'.bytes = f.bytes
            /\ IF ~is_some(regions.mdas[newer(regions)])
               THEN ret'.res = Ok(None) /\ log = <<>>
               ELSE /\ visited(first)
                    /\ visited(first + 2) <=> failed(first)
                    /\ \A k \in 1..Len(log) :
                           /\ log[k][2] \in {offset(first), offset(first + 2)}
                           /\ log[k][1] = "read_exact" => log[k][3] = mda.used
                    /\ IF failed(first) /\ failed(first + 2) THEN ~ret'.res.ok
                       ELSE /\ ret'.res =
                                   Ok(Some(payload(IF failed(first) THEN first + 2
                                                   ELSE first)))
                            /\ checksum_castagnoli(unwrap(ret'.res.val)) = mda.data_crc]_vars

\* C27, its case: the payload of the region of the newer slot had a byte
\* corrupted; load_state, with no stream call failing, has read it, then
\* region newer + 2, and has returned the payload of that one.
C27_Witness ==
    /\ ret.op = "load_state" /\ ret.res.ok /\ is_some(ret.res.val)
    /\ Len(f.log) = 4 /\ \A k \in 1..4 : f.log[k][4]
    /\ LET regions == unwrap(bda).regions
           region_size == sectors_bytes(regions.region_size)
           used == unwrap(regions.mdas[newer(regions)]).used
           payload(r) == Window(f.bytes,
                                BDA_STATIC_HDR_SIZE + r * region_size + MDA_REGION_HDR_SIZE,
                                used)
       IN  /\ payload(newer(regions)) # payload(newer(regions) + 2)
           /\ unwrap(ret.res.val) = payload(newer(regions) + 2)

C29_FailedSaveUnchanged ==
    [][(ret'.op = "save_state" /\ ~ret'.res.ok) =>
           /\ (\E k \in 1..Len(f'.log) : ~f'.log[k][4]) => ret'.res = Err("Io")
           /\ unwrap(bda').regions.mdas = unwrap(bda).regions.mdas
           /\ bda' = bda
           /\ BDA_last_update_time(unwrap(bda')) = BDA_last_update_time(unwrap(bda))
           /\ BDA_load_state(unwrap(bda'), begin_call(f', {})).res
                  = BDA_load_state(unwrap(bda), begin_call(f, {})).res]_vars

\* C29, its case: a save_state has written and synced its first region and
\* has failed at a stream call of the second; load_state() still returns the
\* payload of the last save that succeeded, and last_update_time() its time.
C29_Witness ==
    /\ ret.op = "save_state" /\ ret.res = Err("Io")
    /\ Len(f.log) >= 5 /\ \A k \in 1..4 : f.log[k][4]
    /\ ~f.log[Len(f.log)][4]
    /\ is_some(hist.last)
    /\ ret.args[2] # unwrap(hist.last)[2] \/ ret.args[1] # unwrap(hist.last)[1]
    /\ loaded = Ok(Some(unwrap(hist.last)[2]))
    /\ updated = Some(unwrap(hist.last)[1])

\* C30: on a BDA instance, last_update_time() is the greatest last_updated of
\* the populated in-memory slots, None exactly when both are empty, and no
\* save_state or load_state call, successful or failing, makes it decrease.
C30_LastUpdateTimeMonotonic ==
    [][is_some(bda') =>
        LET mdas == unwrap(bda').regions.mdas
            times == {unwrap(mdas[i]).last_updated : i \in {j \in 0..1 : mdas[j] # None}}
            later(a, b) == a.secs > b.secs \/ (a.secs = b.secs /\ a.nsecs > b.nsecs)
            now == BDA_last_update_time(unwrap(bda'))
            before == BDA_last_update_time(unwrap(bda))
        IN  /\ IF times = {} THEN now = None
               ELSE /\ now # None /\ unwrap(now) \in times
                    /\ \A t \in times : ~later(t, unwrap(now))
            /\ (ret'.op \in {"save_state", "load_state"} /\ before # None) =>
                   now # None /\ ~later(unwrap(before), unwrap(now))]_vars

\* C30, its case: on an instance loaded from a device whose slot 0 held a
\* timestamp, a save_state has failed at a stream call and a later one has
\* succeeded into slot 1: last_update_time() is the time of slot 1, the later
\* of the two.
C30_Witness ==
    /\ ret.op = "save_state" /\ ret.res.ok
    /\ hist.inits = 0 /\ hist.faults = 1
    /\ unwrap(bda).regions.mdas[0] # None /\ unwrap(bda).regions.mdas[1] # None
    /\ unwrap(unwrap(bda).regions.mdas[0]).last_updated = Timestamp(1, 0)
    /\ unwrap(unwrap(bda).regions.mdas[1]).last_updated = Timestamp(1, 999999999)
    /\ unwrap(hist.last)[3] = {1}
    /\ BDA_last_update_time(unwrap(bda)) = Some(Timestamp(1, 999999999))

\* C31: after the k-th successful save_state following initialize, k >= 2, the
\* newer in-memory slot holds the header of that save and the older slot the
\* header of the (k-1)-th (the latest header the instance held before the
\* call), the two timestamps differ, and both regions of the
\* older slot on the device hold the header and the payload of the (k-1)-th
\* save, the payload with the CRC of its header.  The saves that failed in
\* between do not change this.
C31_LastTwoSaves ==
    [][(/\ ret'.op = "save_state" /\ ret'.res.ok
        /\ is_some(hist.last)
        /\ \E v \in 0..1 :
            LET slots == unwrap(bda).regions.mdas
            IN  /\ is_some(slots[v])
                /\ unwrap(slots[v]).last_updated = unwrap(hist.last)[1]
                /\ is_some(slots[1 - v]) =>
                    time_lt(unwrap(slots[1 - v]).last_updated, unwrap(hist.last)[1])) =>
        LET header(time, data) == [last_updated |-> time, used |-> BLen(data),
                                   data_crc |-> checksum_castagnoli(data)]
            previous == header(unwrap(hist.last)[1], unwrap(hist.last)[2])
            current == header(ret'.args[1], ret'.args[2])
            mdas == unwrap(bda').regions.mdas
            region_size == sectors_bytes(unwrap(bda').regions.region_size)
            later(a, b) == a.secs > b.secs \/ (a.secs = b.secs /\ a.nsecs > b.nsecs)
            hdr(r) == Window(f'.bytes, BDA_STATIC_HDR_SIZE + r * region_size, 32)
            payload(r) == Window(f'.bytes, BDA_STATIC_HDR_SIZE + r * region_size + 32,
                                 previous.used)
            intact(r) ==
                /\ Slice(hdr(r), 0, 4) = write_le(checksum_castagnoli(Slice(hdr(r), 4, 32)), 4)
                /\ read_le(Slice(hdr(r), 4, 8)) = previous.data_crc
                /\ read_le(Slice(hdr(r), 8, 16)) = previous.used
                /\ read_le(Slice(hdr(r), 16, 24)) = previous.last_updated.secs
                /\ read_le(Slice(hdr(r), 24, 28)) = previous.last_updated.nsecs
                /\ payload(r) = unwrap(hist.last)[2]
                /\ checksum_castagnoli(payload(r)) = previous.data_crc
        IN  \E w \in 0..1 :
                /\ mdas[w] = Some(current) /\ mdas[1 - w] = Some(previous)
                /\ later(current.last_updated, previous.last_updated)
                /\ newer(unwrap(bda').regions) = w /\ older(unwrap(bda').regions) = 1 - w
                /\ intact(1 - w) /\ intact(3 - w)]_vars

\* C31, its case: the third successful save_state since initialize has gone
\* to slot 0 after a save_state that failed at a stream call; slot 1 holds
\* the second save.
C31_Witness ==
    /\ ret.op = "save_state" /\ ret.res.ok
    /\ hist.faults > 0
    /\ unwrap(hist.last)[3] = {0}
    /\ unwrap(bda).regions.mdas[0] # None /\ unwrap(bda).regions.mdas[1] # None
    /\ time_lt(unwrap(unwrap(bda).regions.mdas[1]).last_updated,
               unwrap(unwrap(bda).regions.mdas[0]).last_updated)

\* C32: whenever setup returns Ok(Some(h)), with or without a failed read
\* on the way, both sigblock sectors of the stream decode to h; and a setup
\* call that immediately follows returns Ok(Some(h)) again, makes no
\* write_all and leaves the bytes of the stream as they were.
C32_SetupConverges ==
    [][/\ (ret'.op = "setup" /\ ret'.res.ok /\ is_some(ret'.res.val)) =>
            /\ sigblock_from_buf(sector_of(f'.bytes, 1)) = ret'.res
            /\ sigblock_from_buf(sector_of(f'.bytes, 2)) = ret'.res
       /\ (/\ ret.op = "setup" /\ ret.res.ok /\ is_some(ret.res.val)
           /\ ret'.op = "setup" /\ ret'.args = <<>>) =>
            /\ ret'.res = ret.res
            /\ f'.bytes = f.bytes
            /\ \A k \in 1..Len(f'.log) : f'.log[k][1] # "write_all"]_vars

\* C32, its case: a setup call whose read of one copy failed has returned
\* Ok(Some(h)) after writing to the stream, and both sectors now hold the
\* same bytes.
C32_Witness ==
    /\ ret.op = "setup" /\ ret.res.ok /\ is_some(ret.res.val)
    /\ ret.args # <<>>
    /\ \E k \in 1..Len(f.log) : f.log[k][1] = "read_exact" /\ ~f.log[k][4]
    /\ \E k \in 1..Len(f.log) : f.log[k][1] = "write_all" /\ f.log[k][4]
    /\ sector_of(f.bytes, 1) = sector_of(f.bytes, 2)

-----------------------------------------------------------------------------
(* The power lost during a save_state *)

\* The stream calls of a save_state before which the power can be lost: it
\* makes eight, seek, write_all, write_all and sync_all for each region
SavePoints == 2..8

\* bda.save_state(&time, &data, &mut f), the power lost before its stream call
\* number point: the calls before it were made, the process is gone and the
\* BDA with it.  The device holds the synced writes and any of the unsynced.
CrashSaveState(time, data, point) ==
    /\ is_some(bda) /\ hist.phase = "saves" /\ is_some(hist.last)
    /\ hist.faults < MaxFaults
    /\ LET dies(got) ==
               \E persist \in SUBSET unsynced_writes(got.s.log) :
                   /\ got.s.err
                   /\ f' = [end_call(got.s) EXCEPT
                                !.bytes = crash_bytes(f.bytes, got.s, got.s, persist, 0),
                                !.pos = 0]
                   /\ ret' = [op |-> "crash_save",
                              args |-> <<time, data, point,
                                         persist = unsynced_writes(got.s.log)>>,
                              res |-> Err("Io")]
       IN  dies(BDA_save_state(unwrap(bda), time, data, begin_call(f, {point})))
    /\ bda' = None
    /\ hist' = [hist EXCEPT !.faults = @ + 1, !.phase = "other"]
    /\ UNCHANGED <<reference, sh, sigbuf, decoded>>

NextCrashSave ==
    \/ \E a \in InitArgs : Initialize(a[1], a[2], a[3], a[4], a[5])
    \/ \E time \in Times, data \in Datas : SaveState(time, data, {})
    \/ \E time \in Times, data \in Datas, point \in SavePoints :
           CrashSaveState(time, data, point)
    \/ Load
    \/ LoadState

SpecCrashSave == Init /\ [][NextCrashSave]_vars

\* C33: when the power is lost between two stream calls of
\* save_state(t_new, d_new) on a BDA whose latest saved payload is d_old, and
\* every write made before it is on the device, BDA::load on the stream
\* followed by load_state returns Ok(Some(d_old)) or Ok(Some(d_new)).  Here
\* for timestamps with seconds above zero.
C33_CrashDuringSave ==
    (/\ ret.op = "crash_save" /\ ret.args[4]
     /\ ret.args[1].secs > 0 /\ unwrap(hist.last)[1].secs > 0) =>
        LET state(b, s) ==
                BDA_load_state(b, begin_call(end_call(s), {})).res
            reopened(got) ==
                /\ got.res.ok /\ is_some(got.res.val)
                /\ state(unwrap(got.res.val), got.s)
                       \in {Ok(Some(unwrap(hist.last)[2])), Ok(Some(ret.args[2]))}
        IN  reopened(BDA_load(begin_call(f, {})))

-----------------------------------------------------------------------------
(* BDA::initialize with MDA sizes of every kind, and reopening with load *)

\* Sizes of the MDA area in sectors: none, one sector a region, below the
\* minimum, the minimum, and sizes that four does not divide
AnyMdaSizes ==
    {0, 4, MIN_MDA_SECTORS - 4, MIN_MDA_SECTORS - 1, MIN_MDA_SECTORS, MIN_MDA_SECTORS + 1,
     MIN_MDA_SECTORS + 2, MIN_MDA_SECTORS + 4}

AnySizeArgs ==
    {<<ids[1], ids[2], mda_size, blkdev_size, 1600000000>> :
        ids \in {<<Uuid1, Uuid3>>, <<Uuid2, Uuid1>>}, mda_size \in AnyMdaSizes,
        blkdev_size \in {70000, 4194304}}

NextAnySize ==
    \/ \E a \in AnySizeArgs : Initialize(a[1], a[2], a[3], a[4], a[5])
    \/ Load
    \/ LoadState
    \/ DeviceIdentifiers

SpecAnySize == Init /\ [][NextAnySize]_vars

\* C34: when BDA::initialize has returned Ok, whatever the mda_size, and the
\* next call is BDA::load on the same stream, load returns Ok(Some(bda)) whose
\* pool_uuid, dev_uuid, dev_size, size and initialization_time are those of
\* the BDA that initialize returned.
C34_InitializeLoadable ==
    [][(ret.op = "initialize" /\ ret.res.ok /\ ret'.op = "load") =>
        /\ ret'.res.ok /\ is_some(ret'.res.val)
        /\ LET made == ret.res.val.header
               got == unwrap(ret'.res.val).header
               size(h) == BDA_STATIC_HDR_SIZE \div SECTOR_SIZE + h.mda_size + h.reserved_size
           IN  /\ got.pool_uuid = made.pool_uuid
               /\ got.dev_uuid = made.dev_uuid
               /\ got.blkdev_size = made.blkdev_size
               /\ size(got) = size(made)
               /\ got.initialization_time = made.initialization_time]_vars

\* When the mda_size is one that validate_mda_size accepts, the load after a
\* successful initialize returns a BDA with the header of the one initialize
\* returned; otherwise it returns an Invalid error.
InitializeLoadableValidSize ==
    [][(ret.op = "initialize" /\ ret.res.ok /\ ret'.op = "load") =>
        IF validate_mda_size(ret.args[3]).ok
        THEN /\ ret'.res.ok /\ is_some(ret'.res.val)
             /\ unwrap(ret'.res.val).header = ret.res.val.header
        ELSE ret'.res = Err("Invalid")]_vars

=============================================================================
